---- MODULE Spec2Model ----
(***************************************************************************)
(* Model of the expense analyzer's core: the content-hash merge            *)
(* (lib/merge), the categorizer and report grouping (lib/analyzer), the    *)
(* CSV parser (lib/parser), the IndexedDB store with its backup/restore    *)
(* flow (lib/db, lib/crypto, components/BackupRestore), and the dashboard  *)
(* (app/page, components/PeriodFilter, components/TransactionsTable).      *)
(*                                                                         *)
(* JavaScript values are modelled as tagged records [t |-> type, v |-> x]: *)
(* "number", "string", "null", "undefined", "array", "object", "Date".     *)
(* Strings are TLA+ strings; Len, \o and SubSeq act on their characters.   *)
(* Numbers that stand for money are integers in thousandths of a currency  *)
(* unit; times are whole hours counted from 2024-06-01T00:00:00.000Z.      *)
(***************************************************************************)
EXTENDS Integers, Sequences, FiniteSets, TLC

VARIABLES
    existing,      \* mergeTransactions: first argument
    incoming,      \* mergeTransactions: second argument
    mergeCall,     \* which call produced mergeResult: "none", "merge", "self"
    mergeResult,   \* the MergeResult returned
    transaction,   \* categorizeTransaction: its argument
    category,      \* categorizeTransaction: the value returned
    transactions,  \* analyzeExpenses: first argument
    categoryOverrides, \* analyzeExpenses: second argument (a Map, or not given)
    report,        \* analyzeExpenses: the report returned
    analyzerCall,  \* "none", then "categorize", "analyze" or "status" once called
    statusBudgets, \* calculateBudgetStatus: second argument (first: transactions)
    month,         \* calculateBudgetStatus: third argument (a Date, or not given)
    budgetStatus,  \* calculateBudgetStatus: the list returned
    analyses,      \* db.analyses: [nextId, rows]
    budgets,       \* db.budgets: [nextId, rows]
    chartPreferences, \* db.chartPreferences: [nextId, rows]
    saveBudgetCall,   \* per caller: the saveBudget call in flight, if any
    restore,       \* the BackupRestore dialog: handleImport's position and data
    operationsLeft, \* user operations still allowed in a behaviour
    exportText,    \* encryptData: first argument
    exportPassword, \* encryptData: second argument
    randomDrawn,   \* crypto.getRandomValues: how many values it has handed out
    exported,      \* the EncryptedData envelopes encryptData has returned
    decryption,    \* decryptData: the call in flight, its position and outcome
    csvRows,       \* parseCSV: the data rows Papa.parse hands to the complete callback
    parsed,        \* parseCSV: the transactions it resolves with, once it has
    home,          \* the Home component: its useState values
    filterPanel,   \* the PeriodFilter component: its state and pending effect
    tablePanel,    \* the TransactionsTable component: its useState values
    chartPanels,   \* the chart components: their saveChartPreferences calls
    download       \* handleExport: the backup file handed to the browser

mergeVars == <<existing, incoming, mergeCall, mergeResult>>

statusVars == <<statusBudgets, month, budgetStatus>>

analyzerVars ==
    <<transaction, category, transactions, categoryOverrides, report, analyzerCall,
      statusVars>>

tables == <<analyses, budgets, chartPreferences>>

storeVars == <<analyses, budgets, chartPreferences, saveBudgetCall, restore, operationsLeft>>

cryptoVars == <<exportText, exportPassword, randomDrawn, exported, decryption>>

parserVars == <<csvRows, parsed>>

pageVars == <<home, filterPanel, tablePanel, chartPanels, download>>

vars == <<mergeVars, analyzerVars, storeVars, cryptoVars, parserVars, pageVars>>

----------------------------------------------------------------------------
(* JavaScript values *)

Null == [t |-> "null"]
Undefined == [t |-> "undefined"]
Num(n) == [t |-> "number", v |-> n]
Str(s) == [t |-> "string", v |-> s]
DateOf(time) == [t |-> "Date", v |-> time]

\* The time value of an Invalid Date (NaN).
NaN == -1

----------------------------------------------------------------------------
(* String primitives *)

LowerAlphabet == "abcdefghijklmnopqrstuvwxyz"
UpperAlphabet == "ABCDEFGHIJKLMNOPQRSTUVWXYZ"
Digits == "0123456789"

CharAt(s, i) == SubSeq(s, i, i)

\* Position of the one-character string c in alphabet, 0 when absent.
IndexIn(c, alphabet) ==
    IF \E i \in 1..Len(alphabet) : CharAt(alphabet, i) = c
    THEN CHOOSE i \in 1..Len(alphabet) : CharAt(alphabet, i) = c
    ELSE 0

\* The case mappings of the letters, as tables from character to character.
LowerOfUpper ==
    [c \in { CharAt(UpperAlphabet, i) : i \in 1..Len(UpperAlphabet) } |->
        CharAt(LowerAlphabet, IndexIn(c, UpperAlphabet))]

UpperOfLower ==
    [c \in { CharAt(LowerAlphabet, i) : i \in 1..Len(LowerAlphabet) } |->
        CharAt(UpperAlphabet, IndexIn(c, LowerAlphabet))]

LowerChar(c) == IF c \in DOMAIN LowerOfUpper THEN LowerOfUpper[c] ELSE c

UpperChar(c) == IF c \in DOMAIN UpperOfLower THEN UpperOfLower[c] ELSE c

RECURSIVE toLowerCase(_)
toLowerCase(s) ==
    IF Len(s) = 0 THEN ""
    ELSE LowerChar(CharAt(s, 1)) \o toLowerCase(SubSeq(s, 2, Len(s)))

RECURSIVE toUpperCase(_)
toUpperCase(s) ==
    IF Len(s) = 0 THEN ""
    ELSE UpperChar(CharAt(s, 1)) \o toUpperCase(SubSeq(s, 2, Len(s)))

\* String.prototype.includes
includes(s, sub) ==
    \E i \in 1..(Len(s) - Len(sub) + 1) : SubSeq(s, i, i + Len(sub) - 1) = sub

IsSpace(c) == c = " "

RECURSIVE trimStart(_)
trimStart(s) ==
    IF Len(s) > 0 /\ IsSpace(CharAt(s, 1))
    THEN trimStart(SubSeq(s, 2, Len(s)))
    ELSE s

RECURSIVE trimEnd(_)
trimEnd(s) ==
    IF Len(s) > 0 /\ IsSpace(CharAt(s, Len(s)))
    THEN trimEnd(SubSeq(s, 1, Len(s) - 1))
    ELSE s

\* String.prototype.trim
trim(s) == trimEnd(trimStart(s))

\* s.replace(/\s+/g, ' '): every run of whitespace becomes one space.
RECURSIVE collapseSpaces(_)
collapseSpaces(s) ==
    IF Len(s) = 0 THEN ""
    ELSE IF IsSpace(CharAt(s, 1))
         THEN " " \o collapseSpaces(trimStart(s))
         ELSE CharAt(s, 1) \o collapseSpaces(SubSeq(s, 2, Len(s)))

\* s.split(sep)[0] for a one-character separator.
RECURSIVE splitFirst(_, _)
splitFirst(s, sep) ==
    IF Len(s) = 0 \/ CharAt(s, 1) = sep THEN ""
    ELSE CharAt(s, 1) \o splitFirst(SubSeq(s, 2, Len(s)), sep)

----------------------------------------------------------------------------
(* Numbers and dates as text *)

DigitChar(k) == CharAt(Digits, k + 1)
IsDigit(c) == IndexIn(c, Digits) # 0
DigitVal(c) == IndexIn(c, Digits) - 1

Pad2(n) == DigitChar((n \div 10) % 10) \o DigitChar(n % 10)
IsTwoDigits(s) == Len(s) = 2 /\ IsDigit(CharAt(s, 1)) /\ IsDigit(CharAt(s, 2))
ParseTwoDigits(s) == 10 * DigitVal(CharAt(s, 1)) + DigitVal(CharAt(s, 2))

RECURSIVE IntToString(_)
IntToString(n) ==
    IF n < 10 THEN DigitChar(n)
    ELSE IntToString(n \div 10) \o DigitChar(n % 10)

\* Number.prototype.toFixed(2) of a non-negative amount given in thousandths.
toFixed2(thousandths) ==
    LET hundredths == (thousandths + 5) \div 10
    IN  IntToString(hundredths \div 100) \o "." \o Pad2(hundredths % 100)

\* Date.prototype.toISOString of a time in June 2024 (hours from the 1st).
toISOString(time) ==
    "2024-06-" \o Pad2(1 + (time \div 24)) \o "T" \o Pad2(time % 24) \o ":00:00.000Z"

\* new Date(string).getTime(): a calendar day is UTC midnight of that day, a
\* full timestamp is its instant, anything else is an Invalid Date.
DateParse(s) ==
    IF Len(s) >= 10 /\ SubSeq(s, 1, 8) = "2024-06-" /\ IsTwoDigits(SubSeq(s, 9, 10))
       /\ ParseTwoDigits(SubSeq(s, 9, 10)) \in 1..30
    THEN LET day == ParseTwoDigits(SubSeq(s, 9, 10))
         IN  IF Len(s) = 10 THEN (day - 1) * 24
             ELSE IF Len(s) = 24 /\ CharAt(s, 11) = "T" /\ IsTwoDigits(SubSeq(s, 12, 13))
                     /\ ParseTwoDigits(SubSeq(s, 12, 13)) < 24
                     /\ SubSeq(s, 14, 24) = ":00:00.000Z"
                  THEN (day - 1) * 24 + ParseTwoDigits(SubSeq(s, 12, 13))
                  ELSE NaN
    ELSE NaN

----------------------------------------------------------------------------
(* lib/merge: content hash and merge *)

Transaction(purchaseDate, bookingText, sector, debit, credit) ==
    [purchaseDate |-> purchaseDate, bookingText |-> bookingText, sector |-> sector,
     debit |-> debit, credit |-> credit]

\* t.debit?.toFixed(2) || '0.00'
AmountText(amount) ==
    IF amount.t = "number" THEN toFixed2(amount.v) ELSE "0.00"

getTransactionHash(t) ==
    LET dateStr == IF t.purchaseDate.t = "Date"
                   THEN splitFirst(toISOString(t.purchaseDate.v), "T")
                   ELSE t.purchaseDate.v
        normalizedText == collapseSpaces(trim(toLowerCase(t.bookingText)))
    IN  dateStr \o "|" \o normalizedText \o "|" \o AmountText(t.debit)
                \o "|" \o AmountText(t.credit)

\* The sort comparator's operands: the Date itself or new Date(string).
PurchaseTime(t) ==
    IF t.purchaseDate.t = "Date" THEN t.purchaseDate.v ELSE DateParse(t.purchaseDate.v)

\* dateA.getTime() - dateB.getTime(); a NaN result counts as 0 in a sort.
CompareByPurchaseDate(a, b) ==
    IF PurchaseTime(a) = NaN \/ PurchaseTime(b) = NaN THEN 0
    ELSE PurchaseTime(a) - PurchaseTime(b)

\* One step of a stable sort: x goes behind every element that does not
\* compare greater than it.
RECURSIVE InsertStable(_, _)
InsertStable(sorted, x) ==
    IF Len(sorted) = 0 THEN <<x>>
    ELSE IF CompareByPurchaseDate(sorted[Len(sorted)], x) <= 0
         THEN Append(sorted, x)
         ELSE Append(InsertStable(SubSeq(sorted, 1, Len(sorted) - 1), x), sorted[Len(sorted)])

RECURSIVE SortFrom(_, _)
SortFrom(sorted, rest) ==
    IF Len(rest) = 0 THEN sorted
    ELSE SortFrom(InsertStable(sorted, Head(rest)), Tail(rest))

\* A sort that puts a record in front of the records of the same date.
RECURSIVE InsertUnstable(_, _)
InsertUnstable(sorted, x) ==
    IF Len(sorted) = 0 THEN <<x>>
    ELSE IF CompareByPurchaseDate(sorted[Len(sorted)], x) < 0
         THEN Append(sorted, x)
         ELSE Append(InsertUnstable(SubSeq(sorted, 1, Len(sorted) - 1), x), sorted[Len(sorted)])

RECURSIVE SortFromUnstable(_, _)
SortFromUnstable(sorted, rest) ==
    IF Len(rest) = 0 THEN sorted
    ELSE SortFromUnstable(InsertUnstable(sorted, Head(rest)), Tail(rest))

sortByPurchaseDateUnstable(list) == SortFromUnstable(<<>>, list)

\* Array.prototype.sort with the purchase-date comparator (stable).
sortByPurchaseDate(list) == SortFrom(<<>>, list)

\* The incoming.forEach loop: acc carries newTransactions, duplicates and the
\* hash set.
RECURSIVE ClassifyIncoming(_, _)
ClassifyIncoming(acc, rest) ==
    IF Len(rest) = 0 THEN acc
    ELSE LET t == Head(rest)
             hash == getTransactionHash(t)
         IN  IF hash \in acc.hashes
             THEN ClassifyIncoming([acc EXCEPT !.duplicates = Append(@, t)], Tail(rest))
             ELSE ClassifyIncoming([acc EXCEPT !.newTransactions = Append(@, t),
                                               !.hashes = @ \cup {hash}], Tail(rest))

\* A result whose stats.newCount counts the accepted records only.
MergeResultOfAcceptedCount(old, new, classified) ==
    LET merged == sortByPurchaseDate(old \o classified.newTransactions)
    IN  [merged |-> merged,
         newTransactions |-> classified.newTransactions,
         duplicates |-> classified.duplicates,
         stats |-> [originalCount |-> Len(old),
                    newCount |-> Len(classified.newTransactions),
                    mergedCount |-> Len(merged),
                    duplicatesFound |-> Len(classified.duplicates)]]

MergeResultOf(old, new, classified) ==
    LET merged == sortByPurchaseDate(old \o classified.newTransactions)
    IN  [merged |-> merged,
         newTransactions |-> classified.newTransactions,
         duplicates |-> classified.duplicates,
         stats |-> [originalCount |-> Len(old),
                    newCount |-> Len(new),
                    mergedCount |-> Len(merged),
                    duplicatesFound |-> Len(classified.duplicates)]]

\* A merge that forgets to record the hash of an accepted incoming record.
RECURSIVE ClassifyIncomingNoAdd(_, _)
ClassifyIncomingNoAdd(acc, rest) ==
    IF Len(rest) = 0 THEN acc
    ELSE LET t == Head(rest)
         IN  IF getTransactionHash(t) \in acc.hashes
             THEN ClassifyIncomingNoAdd([acc EXCEPT !.duplicates = Append(@, t)], Tail(rest))
             ELSE ClassifyIncomingNoAdd([acc EXCEPT !.newTransactions = Append(@, t)], Tail(rest))

mergeTransactionsNoAdd(old, new) ==
    MergeResultOf(old, new,
        ClassifyIncomingNoAdd([newTransactions |-> <<>>, duplicates |-> <<>>,
                               hashes |-> {getTransactionHash(old[i]) : i \in 1..Len(old)}],
                              new))

\* A merge that starts from an empty hash set instead of the existing hashes.
mergeTransactionsNoExisting(old, new) ==
    MergeResultOf(old, new,
        ClassifyIncoming([newTransactions |-> <<>>, duplicates |-> <<>>, hashes |-> {}], new))

mergeTransactions(old, new) ==
    MergeResultOf(old, new,
        ClassifyIncoming([newTransactions |-> <<>>, duplicates |-> <<>>,
                          hashes |-> {getTransactionHash(old[i]) : i \in 1..Len(old)}],
                         new))

----------------------------------------------------------------------------
(* Inputs of the merge *)

\* Longest transaction list handed to a merge.
MaxLen == 2

JuneFifteenth == 14 * 24
JuneFourteenth == 13 * 24
JulyTenth == (30 + 9) * 24

\* The first hours of June, July and August 2024.
MonthStarts == <<0, 30 * 24, 61 * 24>>

\* new Date() at the time of a call.
Now == JuneFifteenth + 12

MergeUniverse ==
    { Transaction(DateOf(JuneFifteenth), "Test Restaurant", "Restaurants",
                  Num(50000), Null),
      Transaction(DateOf(JuneFifteenth + 10), "  test   RESTAURANT ", "Fast Food Restaurant",
                  Num(50004), Null),
      Transaction(Str("2024-06-15"), "Test Restaurant", "Restaurants",
                  Num(50000), Null),
      Transaction(Str("2024-06-15T00:00:00.000Z"), "Test Restaurant", "Restaurants",
                  Num(50000), Null),
      Transaction(DateOf(JuneFourteenth + 8), "Salary", "", Null, Num(100000)) }

ListsUpTo(S, n) == UNION { [1..k -> S] : k \in 0..n }

NoMergeResult ==
    [merged |-> <<>>, newTransactions |-> <<>>, duplicates |-> <<>>,
     stats |-> [originalCount |-> 0, newCount |-> 0, mergedCount |-> 0,
                duplicatesFound |-> 0]]

MergeIdle ==
    /\ existing = <<>>
    /\ incoming = <<>>
    /\ mergeCall = "off"
    /\ mergeResult = NoMergeResult

NoTransaction == Transaction(DateOf(0), "", "", Null, Null)

NoOverrides == [given |-> FALSE, entries |-> <<>>]

NoReport == [totalSpent |-> 0, totalIncome |-> 0, categoryMap |-> <<>>]

StatusIdle ==
    /\ statusBudgets = <<>>
    /\ month = Undefined
    /\ budgetStatus = <<>>

AnalyzerIdle ==
    /\ transaction = NoTransaction
    /\ category = ""
    /\ transactions = <<>>
    /\ categoryOverrides = NoOverrides
    /\ report = NoReport
    /\ analyzerCall = "off"
    /\ StatusIdle

\* A Dexie table with an auto-incremented primary key (++id).
EmptyTable == [nextId |-> 1, rows |-> {}]

Callers == {"first", "second"}

NoCall == [pc |-> "idle"]

\* The dialog as useState initialises it and resetState leaves it.
RestoreClosed == [pc |-> "idle"]

StoreIdle ==
    /\ analyses = EmptyTable
    /\ budgets = EmptyTable
    /\ chartPreferences = EmptyTable
    /\ saveBudgetCall = [c \in Callers |-> NoCall]
    /\ restore = RestoreClosed
    /\ operationsLeft = 0

\* No parseCSV call.
ParserIdle ==
    /\ csvRows = <<>>
    /\ parsed = [done |-> FALSE]

\* No dashboard.
PageIdle ==
    /\ home = [mounted |-> FALSE]
    /\ filterPanel = [mounted |-> FALSE]
    /\ tablePanel = [mounted |-> FALSE]
    /\ chartPanels = [mounted |-> FALSE]
    /\ download = [made |-> FALSE]

\* No encryptData or decryptData call.
CryptoIdle ==
    /\ exportText = ""
    /\ exportPassword = ""
    /\ randomDrawn = 0
    /\ exported = <<>>
    /\ decryption = [pc |-> "off"]

MergeInit ==
    /\ StoreIdle
    /\ CryptoIdle
    /\ ParserIdle
    /\ PageIdle
    /\ existing \in ListsUpTo(MergeUniverse, MaxLen)
    /\ incoming \in ListsUpTo(MergeUniverse, MaxLen)
    /\ mergeCall = "none"
    /\ mergeResult = NoMergeResult
    /\ AnalyzerIdle

\* mergeTransactions(existing, incoming)
Merge ==
    /\ mergeCall = "none"
    /\ mergeCall' = "merge"
    /\ mergeResult' = mergeTransactions(existing, incoming)
    /\ UNCHANGED <<existing, incoming, analyzerVars, storeVars, cryptoVars,
                   parserVars, pageVars>>

\* mergeTransactions(existing, existing)
MergeSelf ==
    /\ mergeCall = "none"
    /\ mergeCall' = "self"
    /\ mergeResult' = mergeTransactions(existing, existing)
    /\ UNCHANGED <<existing, incoming, analyzerVars, storeVars, cryptoVars,
                   parserVars, pageVars>>

MergeNext == Merge \/ MergeSelf

SpecMerge == MergeInit /\ [][MergeNext]_vars

----------------------------------------------------------------------------
(* Properties of the merge *)

Hashes(list) == { getTransactionHash(list[i]) : i \in 1..Len(list) }

DuplicateFree(list) ==
    \A i, j \in 1..Len(list) :
        i # j => getTransactionHash(list[i]) # getTransactionHash(list[j])

Count(x, list) == Cardinality({ i \in 1..Len(list) : list[i] = x })

SameRecords(a, b) ==
    /\ Len(a) = Len(b)
    /\ \A i \in 1..Len(a) : Count(a[i], a) = Count(a[i], b)

WithTime(list, time) == SelectSeq(list, LAMBDA t : PurchaseTime(t) = time)

\* C4 as stated: merged never holds two records of the same content hash,
\* whatever the existing list is.
C4_MergedDuplicateFreeAlways ==
    mergeCall = "merge" => DuplicateFree(mergeResult.merged)

\* C4 (amended): when no two records of existing have the same content hash,
\* no two records of mergeTransactions(existing, incoming).merged have.
C4_MergedDuplicateFree ==
    (mergeCall = "merge" /\ DuplicateFree(existing)) => DuplicateFree(mergeResult.merged)

C4_Witness ==
    /\ mergeCall = "merge"
    /\ DuplicateFree(existing)
    /\ Len(existing) >= 1
    /\ Len(incoming) = MaxLen
    /\ ~DuplicateFree(incoming)
    /\ Hashes(incoming) \cap Hashes(existing) = {}
    /\ Len(mergeResult.merged) = Len(existing) + 1

\* C5: mergeTransactions(L, L) accepts nothing, reports |L| duplicates and
\* returns as merged the |L| records of L.
C5_MergeIdempotent ==
    mergeCall = "self" =>
        /\ mergeResult.newTransactions = <<>>
        /\ Len(mergeResult.duplicates) = Len(existing)
        /\ Len(mergeResult.merged) = Len(existing)
        /\ SameRecords(mergeResult.merged, existing)

C5_Witness ==
    /\ mergeCall = "self"
    /\ Len(existing) = MaxLen
    /\ mergeResult.merged # existing
    /\ Len(mergeResult.duplicates) = MaxLen

\* C6: with valid purchase dates, merged is existing ++ newTransactions in
\* non-decreasing purchase-date order, records of one date in the order they
\* have in existing ++ newTransactions.
C6_MergedStablySorted ==
    (/\ mergeCall = "merge"
     /\ \A i \in 1..Len(existing) : PurchaseTime(existing[i]) # NaN
     /\ \A i \in 1..Len(incoming) : PurchaseTime(incoming[i]) # NaN) =>
        LET source == existing \o mergeResult.newTransactions
            merged == mergeResult.merged
        IN  /\ SameRecords(merged, source)
            /\ \A i, j \in 1..Len(merged) :
                   i < j => PurchaseTime(merged[i]) <= PurchaseTime(merged[j])
            /\ \A i \in 1..Len(source) :
                   WithTime(merged, PurchaseTime(source[i]))
                       = WithTime(source, PurchaseTime(source[i]))

\* An accepted incoming record moves in front of a later existing one and two
\* records of one purchase instant keep their order.
C6_Witness ==
    /\ mergeCall = "merge"
    /\ Len(existing) = MaxLen
    /\ Len(mergeResult.newTransactions) >= 1
    /\ mergeResult.merged # existing \o mergeResult.newTransactions
    /\ \E i, j \in 1..Len(mergeResult.merged) :
           /\ i < j
           /\ mergeResult.merged[i] # mergeResult.merged[j]
           /\ PurchaseTime(mergeResult.merged[i]) = PurchaseTime(mergeResult.merged[j])

\* incoming[i] is a duplicate: its hash is the hash of an existing record or
\* of an accepted incoming record before it.
RECURSIVE IsDuplicateAt(_)
IsDuplicateAt(i) ==
    \/ getTransactionHash(incoming[i]) \in Hashes(existing)
    \/ \E j \in 1..(i - 1) :
           /\ ~IsDuplicateAt(j)
           /\ getTransactionHash(incoming[j]) = getTransactionHash(incoming[i])

RECURSIVE Pick(_, _)
Pick(i, wantDuplicate) ==
    IF i > Len(incoming) THEN <<>>
    ELSE IF IsDuplicateAt(i) = wantDuplicate
         THEN <<incoming[i]>> \o Pick(i + 1, wantDuplicate)
         ELSE Pick(i + 1, wantDuplicate)

\* C7: every incoming record is in exactly one of newTransactions and
\* duplicates, in incoming order, a duplicate exactly when its hash is that of
\* an existing record or of an earlier accepted one; and
\* mergedCount = originalCount + newCount - duplicatesFound.
C7_IncomingClassified ==
    mergeCall = "merge" =>
        /\ mergeResult.newTransactions = Pick(1, FALSE)
        /\ mergeResult.duplicates = Pick(1, TRUE)
        /\ Len(mergeResult.newTransactions) + Len(mergeResult.duplicates) = Len(incoming)
        /\ mergeResult.stats.originalCount = Len(existing)
        /\ mergeResult.stats.newCount = Len(incoming)
        /\ mergeResult.stats.duplicatesFound = Len(mergeResult.duplicates)
        /\ mergeResult.stats.mergedCount = Len(mergeResult.merged)
        /\ mergeResult.stats.mergedCount =
               mergeResult.stats.originalCount + mergeResult.stats.newCount
                   - mergeResult.stats.duplicatesFound

\* A duplicate inside the incoming batch is suppressed.
C7_Witness ==
    /\ mergeCall = "merge"
    /\ existing # <<>>
    /\ Len(incoming) = MaxLen
    /\ Hashes(incoming) \cap Hashes(existing) = {}
    /\ mergeResult.duplicates # <<>>
    /\ mergeResult.newTransactions # <<>>

\* The calendar day (UTC) a purchase date denotes.
PurchaseDay(t) == PurchaseTime(t) \div 24

SamePurchase(a, b) ==
    /\ PurchaseTime(a) # NaN /\ PurchaseTime(b) # NaN
    /\ PurchaseDay(a) = PurchaseDay(b)
    /\ a.bookingText = b.bookingText
    /\ a.debit = b.debit
    /\ a.credit = b.credit

\* C8: an incoming record of the same purchase day, booking text and amounts
\* as an existing record has that record's hash and is classified a duplicate,
\* whether its purchaseDate is a Date or a string.
C8_SameDaySameHash ==
    mergeCall = "merge" =>
        \A i \in 1..Len(incoming) : \A j \in 1..Len(existing) :
            SamePurchase(incoming[i], existing[j]) =>
                /\ getTransactionHash(incoming[i]) = getTransactionHash(existing[j])
                /\ Count(incoming[i], mergeResult.newTransactions) = 0

----------------------------------------------------------------------------
(* lib/analyzer: categorization *)

CATEGORIES ==
    <<
       "Restaurants & Dining",
       "Groceries",
       "Transportation",
       "Travel & Accommodation",
       "Shopping",
       "Health & Beauty",
       "Digital Services",
       "Insurance & Financial",
       "Entertainment",
       "Fuel",
       "Fitness & Sports",
       "Utilities & Telecom",
       "Professional Services",
       "Government & Taxes",
       "Crypto & Investments",
       "Education",
       "Housing",
       "Income",
       "Other"
    >>

\* The own properties of SECTOR_CATEGORY_MAP, as <<sector, category>>.
SECTOR_CATEGORY_MAP ==
    <<
       <<"Restaurants", "Restaurants & Dining">>,
       <<"Fast-Food Restaurants", "Restaurants & Dining">>,
       <<"Fast Food Restaurant", "Restaurants & Dining">>,
       <<"Bakeries", "Restaurants & Dining">>,
       <<"Delivery", "Restaurants & Dining">>,
       <<"Caterers", "Restaurants & Dining">>,
       <<"Hotels", "Travel & Accommodation">>,
       <<"Hotel Indigo", "Travel & Accommodation">>,
       <<"Travel agencies", "Travel & Accommodation">>,
       <<"Surcharge abroad", "Travel & Accommodation">>,
       <<"Airlines", "Travel & Accommodation">>,
       <<"Cathay", "Travel & Accommodation">>,
       <<"Swiss International Air Lines", "Travel & Accommodation">>,
       <<"United", "Travel & Accommodation">>,
       <<"Rent-a-car", "Travel & Accommodation">>,
       <<"Car Rental Company", "Travel & Accommodation">>,
       <<"Duty free shop", "Travel & Accommodation">>,
       <<"Grocery stores", "Groceries">>,
       <<"Supermarkets", "Groceries">>,
       <<"Commuter transportation", "Transportation">>,
       <<"Public transport", "Transportation">>,
       <<"Taxi services", "Transportation">>,
       <<"Taxicabs", "Transportation">>,
       <<"Parking", "Transportation">>,
       <<"UBER", "Transportation">>,
       <<"Passenger railways", "Transportation">>,
       <<"Gasoline service stations", "Fuel">>,
       <<"Clothing store", "Shopping">>,
       <<"Clothing - sports", "Shopping">>,
       <<"Cosmetic stores", "Shopping">>,
       <<"Department stores", "Shopping">>,
       <<"Retail stores", "Shopping">>,
       <<"Retail business", "Shopping">>,
       <<"Catalog Merchant", "Shopping">>,
       <<"Bike", "Shopping">>,
       <<"Books", "Shopping">>,
       <<"Book stores", "Shopping">>,
       <<"Electronics Stores", "Shopping">>,
       <<"Leather goods", "Shopping">>,
       <<"Shoe stores", "Shopping">>,
       <<"Florists", "Shopping">>,
       <<"Precious metals, Metals, Watches and Jewelry (B2B)", "Shopping">>,
       <<"Pharmacies", "Health & Beauty">>,
       <<"Barber or beauty shops", "Health & Beauty">>,
       <<"Healthcare", "Health & Beauty">>,
       <<"Medical services", "Health & Beauty">>,
       <<"Doctors and Physicians", "Health & Beauty">>,
       <<"Optician", "Health & Beauty">>,
       <<"Wellness", "Health & Beauty">>,
       <<"Digital goods", "Digital Services">>,
       <<"Subscriptions", "Digital Services">>,
       <<"Online services", "Digital Services">>,
       <<"Software", "Digital Services">>,
       <<"Computer software stores", "Digital Services">>,
       <<"Telegraph services", "Digital Services">>,
       <<"Data processing services", "Digital Services">>,
       <<"Direct marketing insurance services", "Insurance & Financial">>,
       <<"Insurance", "Insurance & Financial">>,
       <<"Financial services", "Insurance & Financial">>,
       <<"Banking fees", "Insurance & Financial">>,
       <<"Bank interest", "Insurance & Financial">>,
       <<"Cinema", "Entertainment">>,
       <<"Repair Shops", "Professional Services">>,
       <<"Government Services", "Government & Taxes">>,
       <<"Advertising services", "Professional Services">>,
       <<"Business services", "Professional Services">>,
       <<"Professional Services - Not Elsewhere Classified", "Professional Services">>
    >>

\* Properties every object literal inherits from Object.prototype; reading one
\* of them yields a function (or the prototype), which is truthy.
ObjectPrototypeKeys ==
    {"constructor", "toString", "toLocaleString", "valueOf", "hasOwnProperty",
     "isPrototypeOf", "propertyIsEnumerable", "__proto__"}

InheritedMember == "[inherited member of Object.prototype]"

HasSectorEntry(sector) ==
    \E i \in 1..Len(SECTOR_CATEGORY_MAP) : SECTOR_CATEGORY_MAP[i][1] = sector

\* SECTOR_CATEGORY_MAP[sector]; "" stands for undefined.
SectorLookup(sector) ==
    IF HasSectorEntry(sector)
    THEN SECTOR_CATEGORY_MAP[CHOOSE i \in 1..Len(SECTOR_CATEGORY_MAP) :
                                 SECTOR_CATEGORY_MAP[i][1] = sector][2]
    ELSE IF sector \in ObjectPrototypeKeys THEN InheritedMember
    ELSE ""

IncludesAny(s, subs) == \E sub \in subs : includes(s, sub)

\* 'manualCategory' in transaction && transaction.manualCategory
HasManualCategory(tx) ==
    /\ "manualCategory" \in DOMAIN tx
    /\ tx.manualCategory.t = "string"
    /\ tx.manualCategory.v # ""

\* The rules behind the crypto check, in source order.
CategorizeBySectorAndText(text, sector, upperSector) ==
    IF SectorLookup(sector) # "" THEN SectorLookup(sector)
    ELSE IF IncludesAny(text, {"uber eats", "ubereats"}) THEN "Restaurants & Dining"
    ELSE IF IncludesAny(text, {"deliveroo", "just eat", "doordash", "eat.ch"})
         THEN "Restaurants & Dining"
    ELSE IF IncludesAny(text, {"booking.com", "airbnb", "hotels.com", "expedia"})
         THEN "Travel & Accommodation"
    ELSE IF includes(upperSector, "SURCHARGE ABROAD") THEN "Travel & Accommodation"
    ELSE IF IncludesAny(upperSector, {"COM/BILL", "APPLE", "ITUNES"}) THEN "Digital Services"
    ELSE IF IncludesAny(upperSector, {"RESTAURANT", "FOOD"}) THEN "Restaurants & Dining"
    ELSE IF IncludesAny(upperSector, {"GROCERY", "SUPERMARKET"}) THEN "Groceries"
    ELSE IF IncludesAny(upperSector, {"TRANSPORT", "TAXI"}) THEN "Transportation"
    ELSE IF IncludesAny(upperSector, {"HOTEL", "AIRLINE"}) THEN "Travel & Accommodation"
    ELSE IF IncludesAny(upperSector, {"ENTERTAINMENT", "CINEMA", "THEATER", "CONCERT",
                                      "STREAMING", "GAMING", "MOVIE"})
         THEN "Entertainment"
    ELSE IF IncludesAny(upperSector, {"SHOP", "RETAIL", "STORE"}) THEN "Shopping"
    ELSE IF IncludesAny(upperSector, {"HEALTH", "MEDICAL", "PHARMA"}) THEN "Health & Beauty"
    ELSE IF includes(upperSector, "INSURANCE") THEN "Insurance & Financial"
    ELSE IF IncludesAny(text, {"swisscom", "sunrise", "salt"}) THEN "Utilities & Telecom"
    ELSE IF IncludesAny(text, {"cinema", "movie", "theatre", "theater", "concert",
                               "festival", "event", "ticket", "show", "game store",
                               "steam", "playstation", "xbox", "nintendo"})
         THEN "Entertainment"
    ELSE IF IncludesAny(text, {"spotify", "netflix", "youtube premium", "youtube music",
                               "disney+", "hbo", "prime video", "apple music",
                               "soundcloud"})
         THEN "Entertainment"
    ELSE IF IncludesAny(text, {"gym", "fitness"}) THEN "Fitness & Sports"
    ELSE IF includes(upperSector, "QR PAYMENT") \/ sector = "A" \/ sector = "" THEN "Other"
    ELSE "Other"

\* A categorizer that looks for the food-delivery brands before the sector
\* table.
categorizeTransactionDeliveryFirst(tx) ==
    IF HasManualCategory(tx) THEN tx.manualCategory.v
    ELSE IF IncludesAny(toUpperCase(tx.bookingText),
                        {"COINBASE", "KRAKEN", "BINANCE"})
         THEN "Crypto & Investments"
    ELSE IF IncludesAny(toLowerCase(tx.bookingText),
                        {"uber eats", "ubereats", "deliveroo", "just eat", "doordash",
                         "eat.ch"})
         THEN "Restaurants & Dining"
    ELSE CategorizeBySectorAndText(toLowerCase(tx.bookingText),
                                   trim(tx.sector),
                                   toUpperCase(trim(tx.sector)))

\* A categorizer that consults the sector table before the crypto keywords.
categorizeTransactionSectorFirst(tx) ==
    IF HasManualCategory(tx) THEN tx.manualCategory.v
    ELSE IF SectorLookup(trim(tx.sector)) # ""
         THEN SectorLookup(trim(tx.sector))
    ELSE IF IncludesAny(toUpperCase(tx.bookingText),
                        {"COINBASE", "KRAKEN", "BINANCE"})
         THEN "Crypto & Investments"
    ELSE CategorizeBySectorAndText(toLowerCase(tx.bookingText),
                                   trim(tx.sector),
                                   toUpperCase(trim(tx.sector)))

\* A categorizer that honours the manual category only behind the crypto check.
categorizeTransactionManualLate(tx) ==
    IF IncludesAny(toUpperCase(tx.bookingText), {"COINBASE", "KRAKEN", "BINANCE"})
    THEN "Crypto & Investments"
    ELSE IF HasManualCategory(tx) THEN tx.manualCategory.v
    ELSE CategorizeBySectorAndText(toLowerCase(tx.bookingText),
                                   trim(tx.sector),
                                   toUpperCase(trim(tx.sector)))

categorizeTransaction(tx) ==
    IF HasManualCategory(tx) THEN tx.manualCategory.v
    ELSE LET text == toLowerCase(tx.bookingText)
             sector == trim(tx.sector)
             upperText == toUpperCase(tx.bookingText)
             upperSector == toUpperCase(sector)
         IN  IF IncludesAny(upperText, {"COINBASE", "KRAKEN", "BINANCE"})
             THEN "Crypto & Investments"
             ELSE CategorizeBySectorAndText(text, sector, upperSector)

----------------------------------------------------------------------------
(* lib/analyzer: analyzeExpenses *)

\* Map.prototype.get on the override map (keys are array indices from 0).
OverrideGet(overrides, idx) ==
    IF idx \in DOMAIN overrides.entries THEN Str(overrides.entries[idx]) ELSE Undefined

\* transactions.map((t, idx) => ({...t, manualCategory: overrides.get(idx)})),
\* or the list itself when no map is given.
transactionsWithOverrides(list, overrides) ==
    IF overrides.given
    THEN [i \in 1..Len(list) |->
             [k \in DOMAIN list[i] \cup {"manualCategory"} |->
                 IF k = "manualCategory" THEN OverrideGet(overrides, i - 1) ELSE list[i][k]]]
    ELSE list

\* t.debit || 0 and t.credit || 0
AmountOrZero(amount) == IF amount.t = "number" THEN amount.v ELSE 0

\* list.filter((t) => (t[field] || 0) > 0), as the positions (from 1) kept.
RECURSIVE PositionsFrom(_, _, _)
PositionsFrom(list, i, field) ==
    IF i > Len(list) THEN <<>>
    ELSE IF AmountOrZero(list[i][field]) > 0
         THEN <<i>> \o PositionsFrom(list, i + 1, field)
         ELSE PositionsFrom(list, i + 1, field)

IsExpense(t) == AmountOrZero(t.debit) > 0

\* positions.reduce((sum, t) => sum + (t[field] || 0), 0)
RECURSIVE SumOver(_, _, _)
SumOver(list, positions, field) ==
    IF Len(positions) = 0 THEN 0
    ELSE AmountOrZero(list[Head(positions)][field]) + SumOver(list, Tail(positions), field)

\* The expenses.forEach loop: a Map from category to the original
\* transactions, kept as <<category, transactions>> entries in insertion order.
RECURSIVE GroupExpenses(_, _, _, _)
GroupExpenses(categoryMap, list, withOverrides, positions) ==
    IF Len(positions) = 0 THEN categoryMap
    ELSE LET idx == Head(positions)
             cat == categorizeTransaction(withOverrides[idx])
             originalTx == list[idx]
             at == { k \in 1..Len(categoryMap) : categoryMap[k].category = cat }
         IN  IF at = {}
             THEN GroupExpenses(
                      Append(categoryMap, [category |-> cat, transactions |-> <<originalTx>>]),
                      list, withOverrides, Tail(positions))
             ELSE GroupExpenses(
                      [categoryMap EXCEPT ![CHOOSE k \in at : TRUE].transactions =
                                               Append(@, originalTx)],
                      list, withOverrides, Tail(positions))

\* (d) => d && !isNaN(d.getTime()), and the guard of the monthly loop
HasValidDate(t) == t.purchaseDate.t = "Date" /\ t.purchaseDate.v # NaN

\* A filter on the amounts that also asks for a valid purchase date.
RECURSIVE PositionsWithValidDate(_, _, _)
PositionsWithValidDate(list, i, field) ==
    IF i > Len(list) THEN <<>>
    ELSE IF AmountOrZero(list[i][field]) > 0 /\ HasValidDate(list[i])
         THEN <<i>> \o PositionsWithValidDate(list, i + 1, field)
         ELSE PositionsWithValidDate(list, i + 1, field)

AmountPositionsValidDates(list, field) == PositionsWithValidDate(list, 1, field)

\* transactionsWithOverrides.filter((t) => (t[field] || 0) > 0)
AmountPositions(list, field) == PositionsFrom(list, 1, field)

\* txns.reduce((sum, t) => sum + (t[field] || 0), 0)
RECURSIVE SumOf(_, _)
SumOf(list, field) ==
    IF Len(list) = 0 THEN 0
    ELSE AmountOrZero(Head(list)[field]) + SumOf(Tail(list), field)

\* Subdivisions of the unit kept by a quotient (a double keeps 2^52 of them).
QuotientScale == 1000

\* a / b for b > 0: the exact quotient rounded to the nearest representable
\* number, ties to even; in units of 1 / QuotientScale.
Divide(a, b) ==
    LET scaled == a * QuotientScale
        floor == scaled \div b
        twice == 2 * (scaled % b)
    IN  IF twice > b \/ (twice = b /\ floor % 2 = 1) THEN floor + 1 ELSE floor

\* The .map over categoryMap.entries(): percentage is total / total * 100 at
\* first, averageTransaction the fraction total / count.
SummaryOf(entry) ==
    LET categoryTotalSpent == SumOf(entry.transactions, "debit")
    IN  [category |-> entry.category,
         totalSpent |-> categoryTotalSpent,
         count |-> Len(entry.transactions),
         percentage |-> Divide(categoryTotalSpent,
                               IF categoryTotalSpent > 0 THEN categoryTotalSpent ELSE 1) * 100,
         averageTransaction |-> [num |-> categoryTotalSpent, den |-> Len(entry.transactions)],
         transactions |-> entry.transactions]

\* .sort((a, b) => b.totalSpent - a.totalSpent): stable, largest first.
RECURSIVE InsertByTotalSpent(_, _)
InsertByTotalSpent(sorted, x) ==
    IF Len(sorted) = 0 THEN <<x>>
    ELSE IF sorted[Len(sorted)].totalSpent >= x.totalSpent
         THEN Append(sorted, x)
         ELSE Append(InsertByTotalSpent(SubSeq(sorted, 1, Len(sorted) - 1), x),
                     sorted[Len(sorted)])

RECURSIVE SortByTotalSpent(_, _)
SortByTotalSpent(sorted, rest) ==
    IF Len(rest) = 0 THEN sorted
    ELSE SortByTotalSpent(InsertByTotalSpent(sorted, SummaryOf(Head(rest))), Tail(rest))

\* categorySummaries.reduce((sum, c) => sum + c.totalSpent, 0)
RECURSIVE SumTotalSpent(_)
SumTotalSpent(summaries) ==
    IF Len(summaries) = 0 THEN 0
    ELSE Head(summaries).totalSpent + SumTotalSpent(Tail(summaries))

\* Summaries that keep the percentage the .map gave them.
WithInitialPercentages(summaries) == summaries

\* categorySummaries.forEach((cat) => { cat.percentage = ... })
WithPercentages(summaries) ==
    LET totalCategorySpent == SumTotalSpent(summaries)
    IN  [k \in 1..Len(summaries) |->
            [summaries[k] EXCEPT !.percentage =
                IF totalCategorySpent > 0
                THEN Divide(summaries[k].totalSpent, totalCategorySpent) * 100
                ELSE 0]]

\* format(date, 'yyyy-MM') and format(new Date(monthKey + '-01'), 'MMM yyyy')
MonthKeys == <<"2024-06", "2024-07">>
MonthNames == <<"Jun 2024", "Jul 2024">>

MonthIndex(time) ==
    CHOOSE k \in 1..(Len(MonthStarts) - 1) :
        MonthStarts[k] <= time /\ time < MonthStarts[k + 1]

\* The transactions the monthly loop pushes under one month key, in list order.
RECURSIVE InMonth(_, _)
InMonth(list, k) ==
    IF Len(list) = 0 THEN <<>>
    ELSE IF HasValidDate(Head(list)) /\ MonthIndex(Head(list).purchaseDate.v) = k
         THEN <<Head(list)>> \o InMonth(Tail(list), k)
         ELSE InMonth(Tail(list), k)

MonthlyEntry(k, txns) ==
    [month |-> MonthNames[k],
     monthKey |-> MonthKeys[k],
     totalSpent |-> SumOf(txns, "debit"),
     totalIncome |-> SumOf(txns, "credit"),
     netFlow |-> SumOf(txns, "credit") - SumOf(txns, "debit"),
     transactionCount |-> Len(txns)]

\* Array.from(monthlyMap.entries()).sort(by key).map(...): one entry for each
\* month that has a validly dated transaction, in the order of the keys.
RECURSIVE MonthlyFrom(_, _)
MonthlyFrom(list, k) ==
    IF k > Len(MonthKeys) THEN <<>>
    ELSE IF Len(InMonth(list, k)) = 0 THEN MonthlyFrom(list, k + 1)
         ELSE <<MonthlyEntry(k, InMonth(list, k))>> \o MonthlyFrom(list, k + 1)

\* [...expenses].sort((a, b) => (b.debit || 0) - (a.debit || 0)).slice(0, 10)
RECURSIVE InsertByDebit(_, _)
InsertByDebit(sorted, x) ==
    IF Len(sorted) = 0 THEN <<x>>
    ELSE IF AmountOrZero(sorted[Len(sorted)].debit) >= AmountOrZero(x.debit)
         THEN Append(sorted, x)
         ELSE Append(InsertByDebit(SubSeq(sorted, 1, Len(sorted) - 1), x),
                     sorted[Len(sorted)])

RECURSIVE SortByDebit(_, _)
SortByDebit(sorted, rest) ==
    IF Len(rest) = 0 THEN sorted
    ELSE SortByDebit(InsertByDebit(sorted, Head(rest)), Tail(rest))

TopExpenses(list) ==
    LET sorted == SortByDebit(<<>>, list)
    IN  SubSeq(sorted, 1, IF Len(sorted) < 10 THEN Len(sorted) ELSE 10)

\* dates[0] and dates[dates.length - 1] of the sorted valid dates, or new Date()
DateRange(list) ==
    LET times == { list[i].purchaseDate.v : i \in { j \in 1..Len(list) : HasValidDate(list[j]) } }
    IN  IF times = {} THEN [start |-> DateOf(Now), end |-> DateOf(Now)]
        ELSE [start |-> DateOf(CHOOSE t \in times : \A u \in times : t <= u),
              end |-> DateOf(CHOOSE t \in times : \A u \in times : t >= u)]

analyzeExpenses(list, overrides) ==
    LET withOverrides == transactionsWithOverrides(list, overrides)
        expenses == AmountPositions(withOverrides, "debit")
        income == AmountPositions(withOverrides, "credit")
        totalSpent == SumOver(withOverrides, expenses, "debit")
        totalIncome == SumOver(withOverrides, income, "credit")
        categoryMap == GroupExpenses(<<>>, list, withOverrides, expenses)
        categorySummaries == WithPercentages(SortByTotalSpent(<<>>, categoryMap))
    IN  [totalSpent |-> totalSpent,
         totalIncome |-> totalIncome,
         categoryMap |-> categoryMap,
         netBalance |-> totalIncome - totalSpent,
         transactionCount |-> Len(list),
         dateRange |-> DateRange(withOverrides),
         categorySummaries |-> categorySummaries,
         monthlyAnalysis |-> MonthlyFrom(list, 1),
         topExpenses |-> TopExpenses([i \in 1..Len(expenses) |-> withOverrides[expenses[i]]]),
         largestCategory |-> IF Len(categorySummaries) > 0
                             THEN categorySummaries[1] ELSE Null]

----------------------------------------------------------------------------
(* Inputs of the categorizer and of the report *)

\* Longest transaction list handed to analyzeExpenses.
MaxTransactions == 2

BookingTexts ==
    {"COINBASE Purchase", "Payment to Kraken", "www.binance.com", "UBER EATS Zurich",
     "Deliveroo order", "Test Restaurant", "Booking.com hotel", "Swisscom bill",
     "GYM MEMBERSHIP Monthly", "Migros", "UBEREATS 8842", "Just Eat", "DoorDash",
     "EAT.CH Bern"}

\* The parser hands over whatever the Sector column holds.
Sectors ==
    {"Restaurants", " Restaurants ", "UBER", "Taxi services", "TAXI ZURICH",
     "Grocery stores", "Financial services", "QR Payment", "Other", "A", "",
     "constructor"}

ManualCategories == {"Entertainment", "Groceries", "Other"}

WithManualCategory(t, manual) ==
    [k \in DOMAIN t \cup {"manualCategory"} |->
        IF k = "manualCategory" THEN manual ELSE t[k]]

CategorizerInputs ==
    LET plain == { Transaction(DateOf(JuneFifteenth), text, sector, Num(50000), Null) :
                       text \in BookingTexts, sector \in Sectors }
    IN  plain \cup { WithManualCategory(t, Str(m)) : t \in plain, m \in ManualCategories }
              \cup { WithManualCategory(t, Undefined) : t \in plain }

AnalyzerUniverse ==
    { Transaction(DateOf(JuneFifteenth), "Test Restaurant", "Restaurants", Num(50000), Null),
      Transaction(DateOf(JuneFourteenth), "COINBASE Purchase", "Financial services",
                  Num(75500), Null),
      Transaction(DateOf(JuneFourteenth + 8), "Salary", "", Null, Num(100000)),
      Transaction(DateOf(JuneFifteenth + 10), "Migros", "Grocery stores", Num(12000), Null) }

OverrideMaps ==
    { [given |-> FALSE, entries |-> <<>>] } \cup
    { [given |-> TRUE, entries |-> f] :
        f \in UNION { [keys -> ManualCategories] : keys \in SUBSET (0..(MaxTransactions - 1)) } }

AnalyzerInit ==
    /\ MergeIdle
    /\ CryptoIdle
    /\ ParserIdle
    /\ PageIdle
    /\ StoreIdle
    /\ StatusIdle
    /\ analyzerCall = "none"
    /\ category = ""
    /\ report = NoReport
    /\ \/ /\ transaction \in CategorizerInputs
          /\ transactions = <<>>
          /\ categoryOverrides = NoOverrides
       \/ /\ transaction = NoTransaction
          /\ transactions \in ListsUpTo(AnalyzerUniverse, MaxTransactions)
          /\ categoryOverrides \in OverrideMaps

\* categorizeTransaction(transaction)
Categorize ==
    /\ analyzerCall = "none"
    /\ transaction # NoTransaction
    /\ analyzerCall' = "categorize"
    /\ category' = categorizeTransaction(transaction)
    /\ UNCHANGED <<transaction, transactions, categoryOverrides, report, statusVars,
                   mergeVars, storeVars, cryptoVars,
                   parserVars, pageVars>>

\* analyzeExpenses(transactions, categoryOverrides)
AnalyzeExpenses ==
    /\ analyzerCall = "none"
    /\ transaction = NoTransaction
    /\ analyzerCall' = "analyze"
    /\ report' = analyzeExpenses(transactions, categoryOverrides)
    /\ UNCHANGED <<transaction, transactions, categoryOverrides, category, statusVars,
                   mergeVars, storeVars, cryptoVars,
                   parserVars, pageVars>>

AnalyzerNext == Categorize \/ AnalyzeExpenses

SpecAnalyzer == AnalyzerInit /\ [][AnalyzerNext]_vars

\* Longest transaction list of a report.
MaxReportLen == 3

\* Purchases of three categories with the same amount, income, and
\* transactions whose purchaseDate is an Invalid Date (as reviveDates makes of
\* an ISO-like text that names no date).
ReportUniverse ==
    { Transaction(DateOf(JuneFifteenth), "Test Restaurant", "Restaurants", Num(10000), Null),
      Transaction(DateOf(JuneFourteenth), "Migros", "Grocery stores", Num(10000), Null),
      Transaction(DateOf(JulyTenth), "COINBASE Purchase", "Financial services",
                  Num(10000), Null),
      Transaction(DateOf(NaN), "Migros", "Grocery stores", Num(5000), Null),
      Transaction(DateOf(JulyTenth), "Salary", "", Null, Num(100000)),
      Transaction(DateOf(NaN), "Refund", "", Null, Num(2000)) }

ReportOverrideMaps ==
    { [given |-> FALSE, entries |-> <<>>],
      [given |-> TRUE, entries |-> <<>>],
      [given |-> TRUE, entries |-> [k \in {0} |-> "Groceries"]],
      [given |-> TRUE, entries |-> [k \in {1} |-> "Other"]],
      [given |-> TRUE, entries |-> [k \in {0, 2} |-> IF k = 0 THEN "Entertainment"
                                                     ELSE "Groceries"]] }

ReportInit ==
    /\ MergeIdle
    /\ CryptoIdle
    /\ ParserIdle
    /\ PageIdle
    /\ StoreIdle
    /\ StatusIdle
    /\ analyzerCall = "none"
    /\ category = ""
    /\ report = NoReport
    /\ transaction = NoTransaction
    /\ transactions \in ListsUpTo(ReportUniverse, MaxReportLen)
    /\ categoryOverrides \in ReportOverrideMaps

ReportNext == AnalyzeExpenses

SpecReport == ReportInit /\ [][ReportNext]_vars

----------------------------------------------------------------------------
(* Properties of the report *)

ValidlyDated == SelectSeq(transactions, HasValidDate)

Expenses == SelectSeq(transactions, IsExpense)

Income == SelectSeq(transactions, LAMBDA t : AmountOrZero(t.credit) > 0)

RECURSIVE SumOfCounts(_)
SumOfCounts(entries) ==
    IF Len(entries) = 0 THEN 0
    ELSE Head(entries).transactionCount + SumOfCounts(Tail(entries))

ValidTimes == { ValidlyDated[i].purchaseDate.v : i \in 1..Len(ValidlyDated) }

\* The validly dated transactions of the month a monthly entry stands for.
OfMonth(entry) ==
    SelectSeq(ValidlyDated,
              LAMBDA t : MonthKeys[MonthIndex(t.purchaseDate.v)] = entry.monthKey)

\* C21: in a report of analyzeExpenses, transactions with an invalid purchase
\* date count in totalSpent, totalIncome and transactionCount but not in the
\* date range nor in any monthly entry: the monthly transactionCounts add up
\* to the number of validly dated transactions; netBalance is totalIncome -
\* totalSpent; an empty list gives zero totals and empty collections.
C21_InvalidDatesOnlyInTotals ==
    analyzerCall = "analyze" =>
        /\ report.totalSpent = SumOf(Expenses, "debit")
        /\ report.totalIncome = SumOf(Income, "credit")
        /\ report.transactionCount = Len(transactions)
        /\ report.netBalance = report.totalIncome - report.totalSpent
        /\ SumOfCounts(report.monthlyAnalysis) = Len(ValidlyDated)
        /\ \A k \in 1..Len(report.monthlyAnalysis) :
              LET entry == report.monthlyAnalysis[k]
              IN  /\ entry.transactionCount = Len(OfMonth(entry))
                  /\ entry.transactionCount > 0
                  /\ entry.totalSpent = SumOf(OfMonth(entry), "debit")
                  /\ entry.totalIncome = SumOf(OfMonth(entry), "credit")
        /\ ValidTimes # {} =>
              /\ report.dateRange.start.v \in ValidTimes
              /\ report.dateRange.end.v \in ValidTimes
              /\ \A t \in ValidTimes :
                    report.dateRange.start.v <= t /\ t <= report.dateRange.end.v
        /\ Len(transactions) = 0 =>
              /\ report.totalSpent = 0 /\ report.totalIncome = 0
              /\ report.netBalance = 0 /\ report.transactionCount = 0
              /\ report.categorySummaries = <<>> /\ report.monthlyAnalysis = <<>>
              /\ report.topExpenses = <<>> /\ report.largestCategory = Null

\* A report over an expense and an income without valid dates next to a dated
\* purchase: both count in the totals, the only monthly entry counts one.
C21_Witness ==
    /\ analyzerCall = "analyze"
    /\ Len(transactions) = 3
    /\ Len(ValidlyDated) = 1
    /\ report.totalSpent = 15000
    /\ report.totalIncome = 2000
    /\ report.transactionCount = 3
    /\ Len(report.monthlyAnalysis) = 1
    /\ report.monthlyAnalysis[1].totalSpent = 10000

\* The category of the transaction at position i (from 1), override honored.
CategoryAt(i) ==
    categorizeTransaction(transactionsWithOverrides(transactions, categoryOverrides)[i])

ExpensePositions == { i \in 1..Len(transactions) : IsExpense(transactions[i]) }

\* The expenses of one category, in list order.
RECURSIVE ExpensesOfCategory(_, _)
ExpensesOfCategory(cat, i) ==
    IF i > Len(transactions) THEN <<>>
    ELSE IF i \in ExpensePositions /\ CategoryAt(i) = cat
         THEN <<transactions[i]>> \o ExpensesOfCategory(cat, i + 1)
         ELSE ExpensesOfCategory(cat, i + 1)

RECURSIVE SumOfPercentages(_)
SumOfPercentages(summaries) ==
    IF Len(summaries) = 0 THEN 0
    ELSE Head(summaries).percentage + SumOfPercentages(Tail(summaries))

Distance(a, b) == IF a >= b THEN a - b ELSE b - a

\* One summary for each category that has an expense, listing exactly the
\* expenses of that category; the totals add up to totalSpent; largest first.
SummariesPartitionExpenses ==
    LET summaries == report.categorySummaries
    IN  /\ \A k, l \in 1..Len(summaries) :
              summaries[k].category = summaries[l].category => k = l
        /\ \A i \in ExpensePositions :
              \E k \in 1..Len(summaries) : summaries[k].category = CategoryAt(i)
        /\ \A k \in 1..Len(summaries) :
              /\ summaries[k].transactions = ExpensesOfCategory(summaries[k].category, 1)
              /\ summaries[k].count = Len(summaries[k].transactions)
              /\ summaries[k].count > 0
              /\ summaries[k].totalSpent = SumOf(summaries[k].transactions, "debit")
              /\ summaries[k].percentage =
                     Divide(summaries[k].totalSpent, SumTotalSpent(summaries)) * 100
        /\ SumTotalSpent(summaries) = report.totalSpent
        /\ \A k \in 1..(Len(summaries) - 1) :
              summaries[k].totalSpent >= summaries[k + 1].totalSpent
        /\ report.largestCategory =
              IF Len(summaries) > 0 THEN summaries[1] ELSE Null

----------------------------------------------------------------------------
(* Properties of the categorizer *)

\* The category summaries in which the transaction at position i is listed.
GroupsHolding(i) ==
    { k \in 1..Len(report.categoryMap) :
        Count(transactions[i], report.categoryMap[k].transactions) > 0 }

C10_CryptoBeforeSector ==
    (/\ analyzerCall = "categorize"
     /\ ~HasManualCategory(transaction)
     /\ \E word \in {"coinbase", "kraken", "binance"} :
            includes(toLowerCase(transaction.bookingText), word)) =>
        category = "Crypto & Investments"

C10_Witness ==
    /\ analyzerCall = "categorize"
    /\ ~HasManualCategory(transaction)
    /\ transaction.bookingText = "Payment to Kraken"
    /\ HasSectorEntry(trim(transaction.sector))
    /\ category = "Crypto & Investments"

HasCryptoKeyword(tx) ==
    IncludesAny(toUpperCase(tx.bookingText), {"COINBASE", "KRAKEN", "BINANCE"})

DeliveryBrands ==
    {"uber eats", "ubereats", "deliveroo", "just eat", "doordash", "eat.ch"}

NamesDeliveryBrand(tx) == IncludesAny(toLowerCase(tx.bookingText), DeliveryBrands)

\* The category the exact sector table holds for a sector that is one of its
\* keys.
TableCategory(sector) ==
    LET i == CHOOSE k \in 1..Len(SECTOR_CATEGORY_MAP) : SECTOR_CATEGORY_MAP[k][1] = sector
    IN  SECTOR_CATEGORY_MAP[i][2]

C12_DeliveryBeforeSector ==
    (/\ analyzerCall = "categorize"
     /\ ~HasManualCategory(transaction)
     /\ NamesDeliveryBrand(transaction)
     /\ \/ (HasSectorEntry(trim(transaction.sector))
               /\ TableCategory(trim(transaction.sector)) = "Transportation")
        \/ IncludesAny(toUpperCase(trim(transaction.sector)), {"TRANSPORT", "TAXI"})) =>
        category = "Restaurants & Dining"

CategorySet == { CATEGORIES[i] : i \in 1..Len(CATEGORIES) }

\* C13: whatever the booking text, the sector and the manual override are,
\* categorizeTransaction returns a non-empty string that is one of CATEGORIES.
C13_CategorizationTotal ==
    analyzerCall = "categorize" => (category # "" /\ category \in CategorySet)

----------------------------------------------------------------------------
(* lib/analyzer: calculateBudgetStatus *)

\* The first instants of June, July and August 2024, in hours; local time is
\* taken to be UTC.
\* date-fns startOfMonth
startOfMonth(time) ==
    LET i == CHOOSE k \in 1..(Len(MonthStarts) - 1) :
                 MonthStarts[k] <= time /\ time < MonthStarts[k + 1]
    IN  MonthStarts[i]

\* date-fns endOfMonth: 23:59:59.999 of the last day, which at the resolution
\* of whole hours is the last hour of the month.
endOfMonth(time) ==
    LET i == CHOOSE k \in 1..(Len(MonthStarts) - 1) :
                 MonthStarts[k] <= time /\ time < MonthStarts[k + 1]
    IN  MonthStarts[i + 1] - 1

\* An interval test that leaves out the interval's last hour.
isWithinIntervalOpenEnd(time, start, end) == start <= time /\ time < end

\* date-fns isWithinInterval: both ends belong to the interval.
isWithinInterval(time, start, end) == start <= time /\ time <= end

\* transactions.filter(...) of calculateBudgetStatus, as the positions kept.
RECURSIVE MonthPositions(_, _, _, _)
MonthPositions(list, i, monthStart, monthEnd) ==
    IF i > Len(list) THEN <<>>
    ELSE LET time == PurchaseTime(list[i])
         IN  IF time # NaN /\ isWithinInterval(time, monthStart, monthEnd)
             THEN <<i>> \o MonthPositions(list, i + 1, monthStart, monthEnd)
             ELSE MonthPositions(list, i + 1, monthStart, monthEnd)

\* categorySpending.get(category) || 0
SpendingGet(categorySpending, cat) ==
    IF cat \in DOMAIN categorySpending THEN categorySpending[cat] ELSE 0

\* The monthTransactions.forEach loop filling the categorySpending Map.
RECURSIVE SpendingFrom(_, _, _)
SpendingFrom(categorySpending, list, positions) ==
    IF Len(positions) = 0 THEN categorySpending
    ELSE LET t == list[Head(positions)]
         IN  IF AmountOrZero(t.debit) > 0
             THEN LET cat == categorizeTransaction(t)
                      sum == SpendingGet(categorySpending, cat) + AmountOrZero(t.debit)
                  IN  SpendingFrom(
                          [c \in DOMAIN categorySpending \cup {cat} |->
                              IF c = cat THEN sum ELSE categorySpending[c]],
                          list, Tail(positions))
             ELSE SpendingFrom(categorySpending, list, Tail(positions))

\* budget.amount > 0 ? (spent / budget.amount) * 100 : 0, kept as the exact
\* fraction num / den.
PercentUsed(spent, amount) ==
    IF amount > 0 THEN [num |-> spent * 100, den |-> amount] ELSE [num |-> 0, den |-> 1]

\* Tiers with 'over' from 100 percent on.
StatusOfOverAtHundred(percentUsed) ==
    IF percentUsed.num >= 100 * percentUsed.den THEN "over"
    ELSE IF percentUsed.num >= 75 * percentUsed.den THEN "warning"
    ELSE IF percentUsed.num >= 50 * percentUsed.den THEN "early"
    ELSE "healthy"

\* The if / else-if chain assigning status.
StatusOf(percentUsed) ==
    IF percentUsed.num > 100 * percentUsed.den THEN "over"
    ELSE IF percentUsed.num >= 75 * percentUsed.den THEN "warning"
    ELSE IF percentUsed.num >= 50 * percentUsed.den THEN "early"
    ELSE "healthy"

\* The callback of budgets.map
BudgetWithSpending(budget, categorySpending) ==
    LET spent == SpendingGet(categorySpending, budget.category)
        percentUsed == PercentUsed(spent, budget.amount)
    IN  [budget |-> budget, spent |-> spent, remaining |-> budget.amount - spent,
         percentUsed |-> percentUsed, status |-> StatusOf(percentUsed)]

\* b.percentUsed - a.percentUsed <= 0 for a in front of b
NotMoreUsed(b, a) ==
    b.percentUsed.num * a.percentUsed.den <= a.percentUsed.num * b.percentUsed.den

\* .sort((a, b) => b.percentUsed - a.percentUsed), a stable sort.
RECURSIVE InsertByPercentUsed(_, _)
InsertByPercentUsed(sorted, x) ==
    IF Len(sorted) = 0 THEN <<x>>
    ELSE IF NotMoreUsed(x, sorted[Len(sorted)])
         THEN Append(sorted, x)
         ELSE Append(InsertByPercentUsed(SubSeq(sorted, 1, Len(sorted) - 1), x),
                     sorted[Len(sorted)])

RECURSIVE SortByPercentUsed(_, _)
SortByPercentUsed(sorted, rest) ==
    IF Len(rest) = 0 THEN sorted
    ELSE SortByPercentUsed(InsertByPercentUsed(sorted, Head(rest)), Tail(rest))

calculateBudgetStatus(list, budgetList, monthGiven) ==
    IF Len(budgetList) = 0 THEN <<>>
    ELSE LET targetMonth == IF monthGiven.t = "Date" THEN monthGiven.v ELSE Now
             monthStart == startOfMonth(targetMonth)
             monthEnd == endOfMonth(targetMonth)
             monthTransactions == MonthPositions(list, 1, monthStart, monthEnd)
             categorySpending == SpendingFrom(<<>>, list, monthTransactions)
         IN  SortByPercentUsed(<<>>,
                 [i \in 1..Len(budgetList) |->
                     BudgetWithSpending(budgetList[i], categorySpending)])

----------------------------------------------------------------------------
(* Inputs of calculateBudgetStatus *)

Budget(cat, amount) == [category |-> cat, amount |-> amount]

GroceriesBudget == Budget("Groceries", 2000)
DiningBudget == Budget("Restaurants & Dining", 2000)
EmptyBudget == Budget("Groceries", 0)

BudgetLists ==
    { <<>>, <<GroceriesBudget>>, <<DiningBudget>>, <<EmptyBudget>>,
      <<GroceriesBudget, DiningBudget>>, <<DiningBudget, GroceriesBudget>>,
      <<GroceriesBudget, GroceriesBudget>> }

\* Purchases around the ends of June 2024 (amounts of a few units, budgets of
\* two units): the first and the last hour of the
\* month, the first hour of July, a day given as text and an invalid date.
StatusUniverse ==
    { Transaction(DateOf(JuneFifteenth), "Migros", "Grocery stores", Num(1000), Null),
      Transaction(DateOf(30 * 24 - 1), "Coop", "Grocery stores", Num(500), Null),
      Transaction(DateOf(30 * 24), "Migros", "Grocery stores", Num(2001), Null),
      Transaction(DateOf(0), "Test Restaurant", "Restaurants", Num(999), Null),
      Transaction(Str("2024-06-15"), "UBER EATS Zurich", "Other", Num(1001), Null),
      Transaction(Str("not a date"), "Migros", "Grocery stores", Num(1000), Null),
      Transaction(DateOf(JuneFifteenth), "Salary", "", Null, Num(100000)) }

Months == {Undefined, DateOf(JuneFifteenth), DateOf(JulyTenth)}

StatusInit ==
    /\ MergeIdle
    /\ CryptoIdle
    /\ ParserIdle
    /\ PageIdle
    /\ StoreIdle
    /\ transaction = NoTransaction
    /\ category = ""
    /\ categoryOverrides = NoOverrides
    /\ report = NoReport
    /\ analyzerCall = "none"
    /\ budgetStatus = <<>>
    /\ transactions \in ListsUpTo(StatusUniverse, MaxTransactions)
    /\ statusBudgets \in BudgetLists
    /\ month \in Months

\* calculateBudgetStatus(transactions, budgets, month)
CalculateBudgetStatus ==
    /\ analyzerCall = "none"
    /\ analyzerCall' = "status"
    /\ budgetStatus' = calculateBudgetStatus(transactions, statusBudgets, month)
    /\ UNCHANGED <<transaction, category, transactions, categoryOverrides, report,
                   statusBudgets, month, mergeVars, storeVars, cryptoVars,
                   parserVars, pageVars>>

StatusNext == CalculateBudgetStatus

SpecStatus == StatusInit /\ [][StatusNext]_vars

----------------------------------------------------------------------------
(* Properties of calculateBudgetStatus *)

\* percentUsed compared with a whole number of percent: negative, zero or
\* positive as percentUsed is below, at or above it.
PercentAgainst(percentUsed, percent) == percentUsed.num - percent * percentUsed.den

\* C14: every entry is 'healthy' below 50 percent used, 'early' from 50 to
\* below 75, 'warning' from 75 to 100 inclusive and 'over' only above 100;
\* spending equal to the budget amount is 'warning'.
C14_TierBoundaries ==
    analyzerCall = "status" =>
        \A i \in 1..Len(budgetStatus) :
            LET e == budgetStatus[i]
                used == e.percentUsed
            IN  /\ (e.budget.amount > 0) =>
                       used.num * e.budget.amount = e.spent * 100 * used.den
                /\ (e.status = "healthy") <=> (PercentAgainst(used, 50) < 0)
                /\ (e.status = "early") <=>
                       (PercentAgainst(used, 50) >= 0 /\ PercentAgainst(used, 75) < 0)
                /\ (e.status = "warning") <=>
                       (PercentAgainst(used, 75) >= 0 /\ PercentAgainst(used, 100) <= 0)
                /\ (e.status = "over") <=> (PercentAgainst(used, 100) > 0)
                /\ (e.budget.amount > 0 /\ e.spent = e.budget.amount) =>
                       e.status = "warning"

\* One call returns an entry spent to exactly the budget amount next to one
\* that is not.
C14_Witness ==
    /\ analyzerCall = "status"
    /\ \E i \in 1..Len(budgetStatus) :
           /\ budgetStatus[i].spent = budgetStatus[i].budget.amount
           /\ budgetStatus[i].budget.amount > 0
           /\ budgetStatus[i].status = "warning"
    /\ \E i \in 1..Len(budgetStatus) : budgetStatus[i].status = "healthy"

\* The reference month's first and last hour.
TargetMonth == IF month.t = "Date" THEN month.v ELSE Now

InTargetMonth(t) ==
    /\ PurchaseTime(t) # NaN
    /\ startOfMonth(TargetMonth) <= PurchaseTime(t)
    /\ PurchaseTime(t) < startOfMonth(TargetMonth) + 24 * (IF TargetMonth < 30 * 24 THEN 30 ELSE 31)

\* The debits of the transactions from position i on that lie in the
\* reference month and are categorized as cat.
RECURSIVE DebitsOf(_, _)
DebitsOf(cat, i) ==
    IF i > Len(transactions) THEN 0
    ELSE (IF /\ InTargetMonth(transactions[i])
             /\ transactions[i].debit.t = "number"
             /\ categorizeTransaction(transactions[i]) = cat
          THEN transactions[i].debit.v ELSE 0) + DebitsOf(cat, i + 1)

\* C15: the result has one entry per budget, each with spent = the sum of the
\* debits of the transactions of the reference month in the budget's
\* category and remaining = amount - spent; an empty budget list gives an
\* empty result.
C15_SpentPerBudget ==
    analyzerCall = "status" =>
        /\ Len(budgetStatus) = Len(statusBudgets)
        /\ \A i \in 1..Len(statusBudgets) :
               Cardinality({ k \in 1..Len(budgetStatus) :
                               budgetStatus[k].budget = statusBudgets[i] })
                   = Cardinality({ k \in 1..Len(statusBudgets) :
                                     statusBudgets[k] = statusBudgets[i] })
        /\ \A k \in 1..Len(budgetStatus) :
               /\ budgetStatus[k].spent = DebitsOf(budgetStatus[k].budget.category, 1)
               /\ budgetStatus[k].remaining =
                      budgetStatus[k].budget.amount - budgetStatus[k].spent
        /\ (statusBudgets = <<>>) => (budgetStatus = <<>>)

\* A purchase in the last hour of June counts for June, the one in the first
\* hour of July does not.
C15_Witness ==
    /\ analyzerCall = "status"
    /\ month = DateOf(JuneFifteenth)
    /\ Len(transactions) = MaxTransactions
    /\ \E i, j \in 1..Len(transactions) :
           /\ PurchaseTime(transactions[i]) = 30 * 24 - 1
           /\ PurchaseTime(transactions[j]) = 30 * 24
    /\ \E k \in 1..Len(budgetStatus) :
           /\ budgetStatus[k].budget = GroceriesBudget
           /\ budgetStatus[k].spent = 500
           /\ budgetStatus[k].remaining = 1500

----------------------------------------------------------------------------
(* JavaScript objects, arrays and JSON text *)

Bool(b) == [t |-> "boolean", v |-> b]
Obj(fields) == [t |-> "object", v |-> fields]
Arr(items) == [t |-> "array", v |-> items]

\* The typeof operator.
TypeOf(x) ==
    IF x.t \in {"null", "array", "object", "Date"} THEN "object" ELSE x.t

\* obj[key] for a value that passed the object test.
Get(x, key) ==
    IF x.t = "object" /\ key \in DOMAIN x.v THEN x.v[key] ELSE Undefined

\* The conversion to boolean of an if condition.
Truthy(x) ==
    CASE x.t \in {"null", "undefined"} -> FALSE
      [] x.t = "number" -> x.v # 0
      [] x.t = "string" -> x.v # ""
      [] x.t = "boolean" -> x.v
      [] OTHER -> TRUE

\* A text handed to JSON.parse: either the serialization of a value or text
\* that is no JSON.
JsonText(value) == [json |-> TRUE, value |-> value]
NotJson == [json |-> FALSE, value |-> Null]

\* Any other string, by its UTF-16 code units. JsonText and NotJson are
\* well-formed strings that do not begin with a byte order mark.
RawText(units) == [json |-> FALSE, value |-> Null, units |-> units]
IsRawText(text) == "units" \in DOMAIN text

ByteOrderMark == "U+FEFF"
LoneSurrogate == "U+D800"
ReplacementCharacter == "U+FFFD"

\* new TextEncoder().encode(text): UTF-8 has no encoding of a lone surrogate,
\* the encoder writes U+FFFD in its place. The bytes are named by the string
\* they spell.
TextEncode(text) ==
    IF IsRawText(text)
    THEN RawText([i \in 1..Len(text.units) |->
                    IF text.units[i] = LoneSurrogate THEN ReplacementCharacter
                    ELSE text.units[i]])
    ELSE text

\* new TextDecoder().decode(buffer): ignoreBOM is false, a leading byte order
\* mark is not part of the string returned.
TextDecode(bytes) ==
    IF IsRawText(bytes) /\ Len(bytes.units) > 0 /\ bytes.units[1] = ByteOrderMark
    THEN RawText(Tail(bytes.units))
    ELSE bytes

----------------------------------------------------------------------------
(* lib/crypto, with the Web Crypto primitives as symbolic terms *)

\* btoa over bytes; a string that is no base64 makes atob throw.
Base64(bytes) == [base64 |-> TRUE, bytes |-> bytes]
MalformedBase64 == [base64 |-> FALSE, bytes |-> <<>>]

\* PBKDF2(password, salt) -> AES-GCM key
deriveKey(password, salt) == <<password, salt>>

\* AES-GCM: the ciphertext opens only under the same key and IV, untouched.
AesGcmEncrypt(key, iv, plaintext) ==
    [key |-> key, iv |-> iv, plaintext |-> plaintext, intact |-> TRUE]

\* The first 16 base64 characters of SHA-256 over the encoded data.
generateChecksum(data) == [sha256 |-> TextEncode(data)]

encryptData(plaintext, password, salt, iv) ==
    Obj([version |-> Num(1),
         salt |-> Str(Base64(salt)),
         iv |-> Str(Base64(iv)),
         data |-> Str(Base64(AesGcmEncrypt(deriveKey(password, salt), iv,
                                           TextEncode(plaintext)))),
         checksum |-> Str(generateChecksum(plaintext))])

Thrown(message) == [ok |-> FALSE, error |-> message, value |-> Null]
Returned(value) == [ok |-> TRUE, error |-> "", value |-> value]

\* decryptData on an envelope that passed isValidEncryptedBackup.
decryptData(encrypted, password) ==
    IF encrypted.v.version # Num(1) THEN Thrown("Unsupported backup version")
    ELSE IF ~encrypted.v.salt.v.base64 \/ ~encrypted.v.iv.v.base64
            \/ ~encrypted.v.data.v.base64
         THEN Thrown("The string to be decoded is not correctly encoded.")
    ELSE LET salt == encrypted.v.salt.v.bytes
             iv == encrypted.v.iv.v.bytes
             encryptedData == encrypted.v.data.v.bytes
             key == deriveKey(password, salt)
         IN  IF ~(encryptedData.intact /\ encryptedData.key = key /\ encryptedData.iv = iv)
             THEN Thrown("Incorrect password or corrupted data")
             ELSE IF generateChecksum(TextDecode(encryptedData.plaintext))
                         # encrypted.v.checksum.v
                  THEN Thrown("Data integrity check failed")
                  ELSE Returned(TextDecode(encryptedData.plaintext))

isValidEncryptedBackup(data) ==
    /\ TypeOf(data) = "object" /\ data.t # "null"
    /\ TypeOf(Get(data, "version")) = "number"
    /\ TypeOf(Get(data, "salt")) = "string"
    /\ TypeOf(Get(data, "iv")) = "string"
    /\ TypeOf(Get(data, "data")) = "string"
    /\ TypeOf(Get(data, "checksum")) = "string"

----------------------------------------------------------------------------
(* lib/db: tables *)

EmptyObject == [k \in {} |-> Null]

Without(fields, key) == [k \in DOMAIN fields \ {key} |-> fields[k]]

WithField(fields, key, value) ==
    [k \in DOMAIN fields \cup {key} |-> IF k = key THEN value ELSE fields[k]]

\* Table.add: the key generator supplies the id.
TableAdd(table, fields) ==
    [nextId |-> table.nextId + 1,
     rows |-> table.rows \cup {WithField(fields, "id", Num(table.nextId))}]

\* Table.bulkAdd
RECURSIVE TableBulkAdd(_, _)
TableBulkAdd(table, items) ==
    IF Len(items) = 0 THEN table
    ELSE TableBulkAdd(TableAdd(table, Head(items)), Tail(items))

\* Table.clear: the rows go, the key generator keeps counting.
TableClear(table) == [table EXCEPT !.rows = {}]

\* Table.update(id, changes): no row of that id, no change.
TableUpdate(table, id, key, value) ==
    [table EXCEPT !.rows = { IF row.id = id THEN WithField(row, key, value) ELSE row :
                                 row \in table.rows }]

TableDelete(table, id) ==
    [table EXCEPT !.rows = { row \in table.rows : row.id # id }]

\* where('category').equals(category)
RowsOfCategory(table, cat) ==
    { row \in table.rows : "category" \in DOMAIN row /\ row.category = Str(cat) }

\* .first(): the match of the lowest primary key, if any.
FirstOf(rows) == CHOOSE row \in rows : \A other \in rows : row.id.v <= other.id.v

\* The rows without their ids: what two stores of the same content share.
Contents(table) == { Without(row, "id") : row \in table.rows }

----------------------------------------------------------------------------
(* lib/db: backup payload *)

\* /^\d{4}-\d{2}-\d{2}T\d{2}:\d{2}:\d{2}/.test(s)
IsIsoDateLike(s) ==
    /\ Len(s) >= 19
    /\ \A i \in {1, 2, 3, 4, 6, 7, 9, 10, 12, 13, 15, 16, 18, 19} : IsDigit(CharAt(s, i))
    /\ CharAt(s, 5) = "-" /\ CharAt(s, 8) = "-" /\ CharAt(s, 11) = "T"
    /\ CharAt(s, 14) = ":" /\ CharAt(s, 17) = ":"

RECURSIVE reviveDates(_)
reviveDates(x) ==
    CASE x.t = "string" -> IF IsIsoDateLike(x.v) THEN DateOf(DateParse(x.v)) ELSE x
      [] x.t = "array" -> Arr([i \in 1..Len(x.v) |-> reviveDates(x.v[i])])
      [] x.t = "object" -> Obj([k \in DOMAIN x.v |-> reviveDates(x.v[k])])
      [] OTHER -> x

isValidBackupData(data) ==
    /\ TypeOf(data) = "object" /\ data.t # "null"
    /\ TypeOf(Get(data, "version")) = "number"
    /\ TypeOf(Get(data, "exportDate")) = "string"
    /\ Get(data, "analyses").t = "array"
    /\ Get(data, "budgets").t = "array"

\* const { id, ...rest } = item throws a TypeError on null and undefined.
CanDestructure(item) == item.t \notin {"null", "undefined"}

\* reviveDates(rest) for const { id, ...rest } = item, as the row to add.
RowToImport(item) ==
    reviveDates(Obj(IF item.t = "object" THEN Without(item.v, "id") ELSE EmptyObject)).v

\* backup.analyses.map(...) and backup.budgets.map(...)
RowsToImport(items) == [i \in 1..Len(items) |-> RowToImport(items[i])]

\* const { id, ...rest } = backup.chartPreferences, added as it is.
ChartPreferencesToImport(item) ==
    IF item.t = "object" THEN Without(item.v, "id") ELSE EmptyObject

\* The synchronous code of importAllData from one await to the next, as the
\* await it stops at or the error it throws.
Awaiting(pc) == [pc |-> pc, error |-> ""]
Throwing(message) == [pc |-> "error", error |-> message]

AfterBudgets(backup) ==
    IF Truthy(Get(backup, "chartPreferences"))
    THEN Awaiting("addChartPreferences")
    ELSE Awaiting("done")

AfterAnalyses(backup) ==
    LET items == Get(backup, "budgets").v
    IN  IF Get(backup, "budgets").t # "array"
        THEN Throwing("backup.budgets.map is not a function")
        ELSE IF \E i \in 1..Len(items) : ~CanDestructure(items[i])
        THEN Throwing("Cannot destructure 'b' as it is null.")
        ELSE IF Len(items) > 0 THEN Awaiting("bulkAddBudgets")
        ELSE AfterBudgets(backup)

AfterClears(backup) ==
    LET items == Get(backup, "analyses").v
    IN  IF Get(backup, "analyses").t # "array"
        THEN Throwing("backup.analyses.map is not a function")
        ELSE IF \E i \in 1..Len(items) : ~CanDestructure(items[i])
        THEN Throwing("Cannot destructure 'a' as it is null.")
        ELSE IF Len(items) > 0 THEN Awaiting("bulkAddAnalyses")
        ELSE AfterAnalyses(backup)

\* An importAllData that starts clearing whatever the version is.
importAllDataEntryAnyVersion(backup) == Awaiting("clearAnalyses")

\* importAllData up to its first await.
importAllDataEntry(backup) ==
    IF Get(backup, "version") # Num(1) THEN Throwing("Unsupported backup version")
    ELSE Awaiting("clearAnalyses")

----------------------------------------------------------------------------
(* Inputs of the store: budgets to save, backup files to restore *)

\* User operations (saveBudget, deleteBudget, saveAnalysis, handleImport) in
\* one behaviour.
MaxOperations == 3

BudgetCategories == {"Groceries", "Fuel"}
BudgetAmounts == {300000, 400000}

SavedTransaction ==
    Obj([purchaseDate |-> DateOf(JuneFourteenth), bookingText |-> Str("Migros"),
         sector |-> Str("Grocery stores"), debit |-> Num(12000), credit |-> Null])

AnalysisToSave ==
    [name |-> Str("june.csv - 6/15/2024"), fileName |-> Str("june.csv"),
     uploadDate |-> DateOf(Now), transactions |-> Arr(<<SavedTransaction>>),
     report |-> Obj([totalSpent |-> Num(12000), transactionCount |-> Num(1)])]

BackupAnalysis ==
    Obj([id |-> Num(7), name |-> Str("May"), fileName |-> Str("may.csv"),
         uploadDate |-> Str("2024-06-02T09:00:00.000Z"),
         transactions |-> Arr(<<Obj([purchaseDate |-> Str("2024-06-01T00:00:00.000Z"),
                                     bookingText |-> Str("Test Restaurant"),
                                     sector |-> Str("Restaurants"),
                                     debit |-> Num(50000), credit |-> Null])>>),
         report |-> Obj([totalSpent |-> Num(50000), transactionCount |-> Num(1)])])

BackupBudget ==
    Obj([id |-> Num(3), category |-> Str("Groceries"), amount |-> Num(250000),
         createdDate |-> Str("2024-06-01T08:00:00.000Z")])

BackupChartPreferences ==
    Obj([id |-> Num(1), granularity |-> Str("monthly"),
         excludedCategories |-> Arr(<<Str("Income")>>), showFilterPanel |-> Bool(FALSE)])

Backup(version, analysisItems, budgetItems, prefs) ==
    Obj([version |-> Num(version), exportDate |-> Str("2024-06-03T10:00:00.000Z"),
         analyses |-> Arr(analysisItems), budgets |-> Arr(budgetItems),
         chartPreferences |-> prefs])

FullBackup == Backup(1, <<BackupAnalysis>>, <<BackupBudget>>, BackupChartPreferences)

\* The decrypted texts a backup file may carry.
Plaintexts ==
    { JsonText(FullBackup),
      JsonText(Backup(1, <<>>, <<BackupBudget>>, Null)),
      JsonText(Backup(2, <<BackupAnalysis>>, <<BackupBudget>>, BackupChartPreferences)),
      JsonText(Backup(1, <<Null>>, <<BackupBudget>>, BackupChartPreferences)),
      JsonText(Backup(1, <<BackupAnalysis>>, <<Null>>, BackupChartPreferences)),
      JsonText(Obj([version |-> Num(1), exportDate |-> Str("2024-06-03T10:00:00.000Z"),
                    analyses |-> Arr(<<BackupAnalysis>>)])),
      JsonText(Obj(Without(FullBackup.v, "chartPreferences"))),
      JsonText(Backup(1, <<>>, <<BackupBudget>>, Num(5))),
      JsonText(Num(1)),
      NotJson }

BackupPassword == "Passw0rd"
Passwords == {BackupPassword, "Other1Pass", ""}

Salt == <<"salt", 1>>
Iv == <<"iv", 1>>
OtherIv == <<"iv", 2>>

GoodEnvelope == encryptData(JsonText(FullBackup), BackupPassword, Salt, Iv)

\* The files a user may select: backups written by encryptData, and damaged
\* or foreign files.
BackupFiles ==
    { JsonText(encryptData(plaintext, BackupPassword, Salt, Iv)) : plaintext \in Plaintexts }
    \cup
    { JsonText(Obj(WithField(GoodEnvelope.v, "version", Num(2)))),
      JsonText(Obj(WithField(GoodEnvelope.v, "iv", Str(Base64(OtherIv))))),
      JsonText(Obj(WithField(GoodEnvelope.v, "salt", Str(MalformedBase64)))),
      JsonText(Obj(WithField(GoodEnvelope.v, "checksum",
                             Str(generateChecksum(NotJson))))),
      JsonText(Obj(Without(GoodEnvelope.v, "checksum"))),
      JsonText(Obj(WithField(GoodEnvelope.v, "version", Str("1")))),
      JsonText(FullBackup),
      JsonText(Null),
      NotJson }

NoFile == [json |-> FALSE, value |-> Undefined]

----------------------------------------------------------------------------
(* lib/db and components/BackupRestore: operations *)

Snapshot == [analyses |-> analyses, budgets |-> budgets,
             chartPreferences |-> chartPreferences]

NoBackup == Undefined

RestoreEnded(message) ==
    [restore EXCEPT !.pc = IF message = "" THEN "done" ELSE "error", !.error = message]

DialogAtRest == restore.pc \in {"idle", "done", "error"}

NoSaveInFlight == \A c \in Callers : saveBudgetCall[c].pc \in {"idle", "returned"}

StoreInit ==
    /\ MergeIdle
    /\ CryptoIdle
    /\ ParserIdle
    /\ PageIdle
    /\ AnalyzerIdle
    /\ analyses = EmptyTable
    /\ budgets = EmptyTable
    /\ chartPreferences = EmptyTable
    /\ saveBudgetCall = [c \in Callers |-> NoCall]
    /\ restore = RestoreClosed
    /\ operationsLeft = MaxOperations

\* saveBudget is called: it awaits where('category').equals(category).first()
SaveBudgetCalled(c) ==
    /\ restore.pc = "idle"
    /\ operationsLeft > 0
    /\ saveBudgetCall[c].pc \in {"idle", "returned"}
    /\ \E cat \in BudgetCategories, amount \in BudgetAmounts :
           saveBudgetCall' = [saveBudgetCall EXCEPT
               ![c] = [pc |-> "lookup", category |-> cat, amount |-> amount]]
    /\ operationsLeft' = operationsLeft - 1
    /\ UNCHANGED <<tables, restore, mergeVars, analyzerVars, cryptoVars,
                   parserVars, pageVars>>

\* the lookup resolves: an update or an add is issued
SaveBudgetLookedUp(c) ==
    /\ saveBudgetCall[c].pc = "lookup"
    /\ LET found == RowsOfCategory(budgets, saveBudgetCall[c].category)
       IN  saveBudgetCall' = [saveBudgetCall EXCEPT ![c] =
               IF found # {}
               THEN [pc |-> "update", category |-> saveBudgetCall[c].category,
                     amount |-> saveBudgetCall[c].amount, id |-> FirstOf(found).id]
               ELSE [pc |-> "add", category |-> saveBudgetCall[c].category,
                     amount |-> saveBudgetCall[c].amount]]
    /\ UNCHANGED <<tables, restore, operationsLeft, mergeVars, analyzerVars, cryptoVars,
                   parserVars, pageVars>>

\* db.budgets.update(existing.id, { amount }) resolves; existing.id is returned
SaveBudgetUpdated(c) ==
    /\ saveBudgetCall[c].pc = "update"
    /\ budgets' = TableUpdate(budgets, saveBudgetCall[c].id, "amount",
                              Num(saveBudgetCall[c].amount))
    /\ saveBudgetCall' = [saveBudgetCall EXCEPT ![c] =
           [pc |-> "returned", category |-> saveBudgetCall[c].category,
            amount |-> saveBudgetCall[c].amount, id |-> saveBudgetCall[c].id,
            updated |-> TRUE]]
    /\ UNCHANGED <<analyses, chartPreferences, restore, operationsLeft,
                   mergeVars, analyzerVars, cryptoVars,
                   parserVars, pageVars>>

\* db.budgets.add({ category, amount, createdDate }) resolves with the new id
SaveBudgetAdded(c) ==
    /\ saveBudgetCall[c].pc = "add"
    /\ budgets' = TableAdd(budgets, [category |-> Str(saveBudgetCall[c].category),
                                     amount |-> Num(saveBudgetCall[c].amount),
                                     createdDate |-> DateOf(Now)])
    /\ saveBudgetCall' = [saveBudgetCall EXCEPT ![c] =
           [pc |-> "returned", category |-> saveBudgetCall[c].category,
            amount |-> saveBudgetCall[c].amount, id |-> Num(budgets.nextId),
            updated |-> FALSE]]
    /\ UNCHANGED <<analyses, chartPreferences, restore, operationsLeft,
                   mergeVars, analyzerVars, cryptoVars,
                   parserVars, pageVars>>

\* deleteBudget(id)
DeleteBudget ==
    /\ restore.pc = "idle"
    /\ operationsLeft > 0
    /\ \E row \in budgets.rows : budgets' = TableDelete(budgets, row.id)
    /\ operationsLeft' = operationsLeft - 1
    /\ UNCHANGED <<analyses, chartPreferences, saveBudgetCall, restore,
                   mergeVars, analyzerVars, cryptoVars,
                   parserVars, pageVars>>

\* saveAnalysis(fileName, transactions, report)
SaveAnalysis ==
    /\ restore.pc = "idle"
    /\ operationsLeft > 0
    /\ analyses' = TableAdd(analyses, AnalysisToSave)
    /\ operationsLeft' = operationsLeft - 1
    /\ UNCHANGED <<budgets, chartPreferences, saveBudgetCall, restore,
                   mergeVars, analyzerVars, cryptoVars,
                   parserVars, pageVars>>

\* handleImport is clicked: without a file or a password it only reports;
\* otherwise it awaits importFile.text()
HandleImport ==
    /\ DialogAtRest
    /\ NoSaveInFlight
    /\ operationsLeft > 0
    /\ \E file \in BackupFiles \cup {NoFile}, password \in Passwords :
           restore' =
               [pc |-> IF file = NoFile \/ password = "" THEN "error" ELSE "text",
                error |-> IF file = NoFile THEN "Please select a backup file"
                          ELSE IF password = "" THEN "Please enter the backup password"
                          ELSE "",
                file |-> file, password |-> password, backup |-> NoBackup,
                imported |-> FALSE, before |-> Snapshot]
    /\ operationsLeft' = operationsLeft - 1
    /\ UNCHANGED <<tables, saveBudgetCall, mergeVars, analyzerVars, cryptoVars,
                   parserVars, pageVars>>

\* The file is read: JSON.parse, isValidEncryptedBackup, then decryptData is
\* awaited.
ImportFileRead ==
    /\ restore.pc = "text"
    /\ restore' =
           IF ~restore.file.json THEN RestoreEnded("Unexpected token in JSON")
           ELSE IF ~isValidEncryptedBackup(restore.file.value)
                THEN RestoreEnded("Invalid backup file format")
                ELSE [restore EXCEPT !.pc = "decrypt"]
    /\ UNCHANGED <<tables, saveBudgetCall, operationsLeft, mergeVars, analyzerVars,
                   cryptoVars,
                   parserVars, pageVars>>

\* A restore that hands the decrypted payload to importAllData unvalidated.
AfterDecryptUnvalidated(decrypted) ==
    IF ~decrypted.ok THEN RestoreEnded(decrypted.error)
    ELSE IF ~decrypted.value.json THEN RestoreEnded("Unexpected token in JSON")
    ELSE LET backup == decrypted.value.value
             entry == importAllDataEntry(backup)
         IN  [restore EXCEPT !.backup = backup, !.imported = TRUE,
                             !.pc = entry.pc, !.error = entry.error]

\* What handleImport does with the outcome of decryptData: JSON.parse,
\* isValidBackupData, then the call of importAllData up to its first await.
AfterDecrypt(decrypted) ==
    IF ~decrypted.ok THEN RestoreEnded(decrypted.error)
    ELSE IF ~decrypted.value.json THEN RestoreEnded("Unexpected token in JSON")
    ELSE IF ~isValidBackupData(decrypted.value.value)
         THEN RestoreEnded("Invalid backup data structure")
    ELSE LET backup == decrypted.value.value
             entry == importAllDataEntry(backup)
         IN  [restore EXCEPT !.backup = backup, !.imported = TRUE,
                             !.pc = entry.pc, !.error = entry.error]

ImportDecrypted ==
    /\ restore.pc = "decrypt"
    /\ restore' = AfterDecrypt(decryptData(restore.file.value, restore.password))
    /\ UNCHANGED <<tables, saveBudgetCall, operationsLeft, mergeVars, analyzerVars,
                   cryptoVars,
                   parserVars, pageVars>>

\* await db.analyses.clear()
ImportClearedAnalyses ==
    /\ restore.pc = "clearAnalyses"
    /\ analyses' = TableClear(analyses)
    /\ restore' = [restore EXCEPT !.pc = "clearBudgets"]
    /\ UNCHANGED <<budgets, chartPreferences, saveBudgetCall, operationsLeft,
                   mergeVars, analyzerVars, cryptoVars,
                   parserVars, pageVars>>

\* await db.budgets.clear()
ImportClearedBudgets ==
    /\ restore.pc = "clearBudgets"
    /\ budgets' = TableClear(budgets)
    /\ restore' = [restore EXCEPT !.pc = "clearChartPreferences"]
    /\ UNCHANGED <<analyses, chartPreferences, saveBudgetCall, operationsLeft,
                   mergeVars, analyzerVars, cryptoVars,
                   parserVars, pageVars>>

\* await db.chartPreferences.clear(), then the analyses are mapped
ImportClearedChartPreferences ==
    /\ restore.pc = "clearChartPreferences"
    /\ chartPreferences' = TableClear(chartPreferences)
    /\ restore' = [restore EXCEPT !.pc = AfterClears(restore.backup).pc,
                                  !.error = AfterClears(restore.backup).error]
    /\ UNCHANGED <<analyses, budgets, saveBudgetCall, operationsLeft,
                   mergeVars, analyzerVars, cryptoVars,
                   parserVars, pageVars>>

\* await db.analyses.bulkAdd(analysesToImport), then the budgets are mapped
ImportAddedAnalyses ==
    /\ restore.pc = "bulkAddAnalyses"
    /\ analyses' = TableBulkAdd(analyses, RowsToImport(Get(restore.backup, "analyses").v))
    /\ restore' = [restore EXCEPT !.pc = AfterAnalyses(restore.backup).pc,
                                  !.error = AfterAnalyses(restore.backup).error]
    /\ UNCHANGED <<budgets, chartPreferences, saveBudgetCall, operationsLeft,
                   mergeVars, analyzerVars, cryptoVars,
                   parserVars, pageVars>>

\* await db.budgets.bulkAdd(budgetsToImport)
ImportAddedBudgets ==
    /\ restore.pc = "bulkAddBudgets"
    /\ budgets' = TableBulkAdd(budgets, RowsToImport(Get(restore.backup, "budgets").v))
    /\ restore' = [restore EXCEPT !.pc = AfterBudgets(restore.backup).pc,
                                  !.error = AfterBudgets(restore.backup).error]
    /\ UNCHANGED <<analyses, chartPreferences, saveBudgetCall, operationsLeft,
                   mergeVars, analyzerVars, cryptoVars,
                   parserVars, pageVars>>

\* await db.chartPreferences.add(rest); importAllData returns
ImportAddedChartPreferences ==
    /\ restore.pc = "addChartPreferences"
    /\ chartPreferences' =
           TableAdd(chartPreferences,
                    ChartPreferencesToImport(Get(restore.backup, "chartPreferences")))
    /\ restore' = [restore EXCEPT !.pc = "done"]
    /\ UNCHANGED <<analyses, budgets, saveBudgetCall, operationsLeft,
                   mergeVars, analyzerVars, cryptoVars,
                   parserVars, pageVars>>

\* An add that the storage refuses (quota exceeded): the await rejects and
\* handleImport's catch reports it.
ImportAddRejected ==
    /\ restore.pc \in {"bulkAddAnalyses", "bulkAddBudgets", "addChartPreferences"}
    /\ restore' = RestoreEnded("QuotaExceededError")
    /\ UNCHANGED <<tables, saveBudgetCall, operationsLeft, mergeVars, analyzerVars,
                   cryptoVars,
                   parserVars, pageVars>>

\* handleClose: resetState
CloseBackupRestore ==
    /\ restore.pc \in {"done", "error"}
    /\ restore' = RestoreClosed
    /\ UNCHANGED <<tables, saveBudgetCall, operationsLeft, mergeVars, analyzerVars,
                   cryptoVars,
                   parserVars, pageVars>>

StoreNext ==
    \/ \E c \in Callers : SaveBudgetCalled(c)
    \/ \E c \in Callers : SaveBudgetLookedUp(c)
    \/ \E c \in Callers : SaveBudgetUpdated(c)
    \/ \E c \in Callers : SaveBudgetAdded(c)
    \/ DeleteBudget
    \/ SaveAnalysis
    \/ HandleImport
    \/ ImportFileRead
    \/ ImportDecrypted
    \/ ImportClearedAnalyses
    \/ ImportClearedBudgets
    \/ ImportClearedChartPreferences
    \/ ImportAddedAnalyses
    \/ ImportAddedBudgets
    \/ ImportAddedChartPreferences
    \/ ImportAddRejected
    \/ CloseBackupRestore

SpecStore == StoreInit /\ [][StoreNext]_vars

----------------------------------------------------------------------------
(* Properties of the store *)

ContentsOf(snapshot) ==
    [analyses |-> Contents(snapshot.analyses), budgets |-> Contents(snapshot.budgets),
     chartPreferences |-> Contents(snapshot.chartPreferences)]

\* What a complete import of the backup leaves in the tables.
BackupContents(backup) ==
    [analyses |-> { RowToImport(Get(backup, "analyses").v[i]) :
                        i \in 1..Len(Get(backup, "analyses").v) },
     budgets |-> { RowToImport(Get(backup, "budgets").v[i]) :
                       i \in 1..Len(Get(backup, "budgets").v) },
     chartPreferences |->
         IF Truthy(Get(backup, "chartPreferences"))
         THEN {ChartPreferencesToImport(Get(backup, "chartPreferences"))}
         ELSE {}]

\* C1: when a restore attempt has ended, with success or with an error, the
\* tables hold what they held before the attempt or exactly the backup's
\* analyses, budgets and chart preferences.
C1_RestoreAllOrNothing ==
    restore.pc \in {"done", "error"} =>
        \/ ContentsOf(Snapshot) = ContentsOf(restore.before)
        \/ /\ restore.backup # NoBackup
           /\ ContentsOf(Snapshot) = BackupContents(restore.backup)

\* The three checks of handleImport on the selected file and password.
ValidationsAccept(file, password) ==
    /\ file.json
    /\ isValidEncryptedBackup(file.value)
    /\ decryptData(file.value, password).ok
    /\ decryptData(file.value, password).value.json
    /\ isValidBackupData(decryptData(file.value, password).value.value)

Importing ==
    restore.pc \in {"clearAnalyses", "clearBudgets", "clearChartPreferences",
                    "bulkAddAnalyses", "bulkAddBudgets", "addChartPreferences", "done"}

\* C2: importAllData is invoked only once isValidEncryptedBackup, decryptData
\* and isValidBackupData have all accepted; while they are evaluated and
\* whenever one of them rejects, the three tables are as they were before the
\* attempt.
C2_ImportOnlyAfterValidation ==
    restore.pc # "idle" =>
        /\ restore.imported => ValidationsAccept(restore.file, restore.password)
        /\ Importing => restore.imported
        /\ ~restore.imported => Snapshot = restore.before

\* The decrypted payload of a well-formed, correctly decrypted file is
\* rejected by isValidBackupData while the tables hold data.
C2_Witness ==
    /\ restore.pc = "error"
    /\ restore.error = "Invalid backup data structure"
    /\ ~restore.imported
    /\ budgets.rows # {}
    /\ analyses.rows # {}

\* C19: a decrypted payload is accepted by isValidBackupData, and so handed
\* to importAllData, only if it holds version (a number), exportDate (a
\* string), analyses (an array), budgets (an array) and chartPreferences (an
\* object or null).
C19_PayloadFieldsValidated ==
    (restore.pc # "idle" /\ restore.imported) =>
        /\ TypeOf(Get(restore.backup, "version")) = "number"
        /\ TypeOf(Get(restore.backup, "exportDate")) = "string"
        /\ Get(restore.backup, "analyses").t = "array"
        /\ Get(restore.backup, "budgets").t = "array"
        /\ "chartPreferences" \in DOMAIN restore.backup.v
        /\ Get(restore.backup, "chartPreferences").t \in {"object", "null"}

\* C25: importAllData called with a backup whose version is not 1 throws
\* 'Unsupported backup version' and leaves the three tables as they were.
C25_VersionCheckedBeforeClear ==
    (restore.pc # "idle" /\ restore.imported
         /\ Get(restore.backup, "version") # Num(1)) =>
        /\ restore.pc = "error"
        /\ restore.error = "Unsupported backup version"
        /\ Snapshot = restore.before

\* A version 2 backup was handed to importAllData while the tables held an
\* analysis and a budget; both are still there.
C25_Witness ==
    /\ restore.pc = "error"
    /\ restore.imported
    /\ Get(restore.backup, "version") = Num(2)
    /\ restore.error = "Unsupported backup version"
    /\ analyses.rows # {}
    /\ budgets.rows # {}

\* C3: the budgets table never holds two records of one category.
C3_OneBudgetPerCategory ==
    \A cat \in BudgetCategories : Cardinality(RowsOfCategory(budgets, cat)) <= 1

----------------------------------------------------------------------------
(* lib/crypto: encryptData and decryptData calls *)

\* encryptData calls in one behaviour.
MaxEncryptions == 2

\* crypto.getRandomValues(new Uint8Array(length)): the n-th value handed out.
\* Two draws never give the same bytes.
getRandomValuesRepeated(length, n) == [random |-> 0, length |-> length]
getRandomValues(length, n) == [random |-> n, length |-> length]

generateSalt(n) == getRandomValues(16, n)
generateIV(n) == getRandomValues(12, n)

\* The strings handed to encryptData.
ExportTexts ==
    { JsonText(FullBackup),
      RawText(<<>>),
      RawText(<<"a">>),
      RawText(<<ByteOrderMark, "a">>),
      RawText(<<"a", LoneSurrogate>>) }

ExportPasswords == {BackupPassword, "Other1Pass"}

\* What a file read back may hold in place of the envelope written: the
\* envelope itself, or the envelope with fields replaced.
Replaced(envelope, key, value) == Obj(WithField(envelope.v, key, value))

FilesOf(envelope) ==
    { envelope,
      Replaced(envelope, "version", Num(2)),
      Replaced(envelope, "version", Num(0)),
      Replaced(Replaced(envelope, "version", Num(2)), "salt", Str(MalformedBase64)),
      Replaced(envelope, "salt", Str(MalformedBase64)),
      Replaced(envelope, "iv", Str(MalformedBase64)),
      Replaced(envelope, "data", Str(MalformedBase64)),
      Replaced(envelope, "salt", Str(Base64(getRandomValues(16, 0)))),
      Replaced(envelope, "salt", Str(Base64(getRandomValues(3, 0)))),
      Replaced(envelope, "iv", Str(Base64(getRandomValues(12, 0)))),
      Replaced(envelope, "iv", Str(Base64(getRandomValues(3, 0)))),
      Replaced(envelope, "data",
               Str(Base64([envelope.v.data.v.bytes EXCEPT !.intact = FALSE]))),
      Replaced(envelope, "checksum", Str(generateChecksum(RawText(<<"b">>)))) }

NoDecryption == [pc |-> "idle"]

CryptoInit ==
    /\ MergeIdle
    /\ ParserIdle
    /\ PageIdle
    /\ AnalyzerIdle
    /\ StoreIdle
    /\ exportText \in ExportTexts
    /\ exportPassword \in ExportPasswords
    /\ randomDrawn = 0
    /\ exported = <<>>
    /\ decryption = NoDecryption

\* encryptData(exportText, exportPassword)
EncryptData ==
    /\ Len(exported) < MaxEncryptions
    /\ exported' = Append(exported,
                          encryptData(exportText, exportPassword,
                                      generateSalt(randomDrawn + 1),
                                      generateIV(randomDrawn + 2)))
    /\ randomDrawn' = randomDrawn + 2
    /\ UNCHANGED <<exportText, exportPassword, decryption, mergeVars, analyzerVars,
                   storeVars,
                   parserVars, pageVars>>

\* A decryptData call: where it is, what it has started, what it holds.
Decryption(pc, encrypted, password, work, held, result) ==
    [pc |-> pc, encrypted |-> encrypted, password |-> password, work |-> work,
     held |-> held, result |-> result]

Ended(d, work, result) ==
    Decryption("ended", d.encrypted, d.password, work, Null, result)

GenericError == "Incorrect password or corrupted data"

\* decryptData up to its first await, with the base64 decoding ahead of the
\* version check.
DecryptEntryDecodeFirst(encrypted, password) ==
    LET d == Decryption("entry", encrypted, password, <<>>, Null, Null)
    IN  IF ~encrypted.v.salt.v.base64 \/ ~encrypted.v.iv.v.base64
           \/ ~encrypted.v.data.v.base64
        THEN Ended(d, <<"base64ToArrayBuffer">>,
                   Thrown("The string to be decoded is not correctly encoded."))
        ELSE IF encrypted.v.version # Num(1)
        THEN Ended(d, <<"base64ToArrayBuffer">>, Thrown("Unsupported backup version"))
        ELSE Decryption("deriveKey", encrypted, password,
                        <<"base64ToArrayBuffer", "deriveKey">>, Null, Null)

\* decryptData up to its first await: the version check, the three
\* base64ToArrayBuffer calls, then deriveKey is started.
DecryptEntry(encrypted, password) ==
    LET d == Decryption("entry", encrypted, password, <<>>, Null, Null)
    IN  IF encrypted.v.version # Num(1)
        THEN Ended(d, <<>>, Thrown("Unsupported backup version"))
        ELSE IF ~encrypted.v.salt.v.base64 \/ ~encrypted.v.iv.v.base64
                \/ ~encrypted.v.data.v.base64
        THEN Ended(d, <<"base64ToArrayBuffer">>,
                   Thrown("The string to be decoded is not correctly encoded."))
        ELSE Decryption("deriveKey", encrypted, password,
                        <<"base64ToArrayBuffer", "deriveKey">>, Null, Null)

\* decryptData(file, password) is called.
DecryptCalled ==
    /\ decryption.pc = "idle"
    /\ \E i \in 1..Len(exported) : \E file \in FilesOf(exported[i]) :
         \E password \in ExportPasswords :
            decryption' = DecryptEntry(file, password)
    /\ UNCHANGED <<exportText, exportPassword, randomDrawn, exported, mergeVars,
                   analyzerVars, storeVars,
                   parserVars, pageVars>>

\* await deriveKey(password, salt) resolves; crypto.subtle.decrypt is started.
DecryptKeyDerived ==
    /\ decryption.pc = "deriveKey"
    /\ decryption' =
         [decryption EXCEPT
            !.pc = "decrypt",
            !.work = Append(@, "decrypt"),
            !.held = deriveKey(decryption.password, decryption.encrypted.v.salt.v.bytes)]
    /\ UNCHANGED <<exportText, exportPassword, randomDrawn, exported, mergeVars,
                   analyzerVars, storeVars,
                   parserVars, pageVars>>

\* await crypto.subtle.decrypt(...) settles: rejected, the catch block throws
\* the generic error; resolved, the text is decoded and generateChecksum is
\* started.
DecryptDone ==
    /\ decryption.pc = "decrypt"
    /\ LET encryptedData == decryption.encrypted.v.data.v.bytes
           iv == decryption.encrypted.v.iv.v.bytes
       IN  decryption' =
             IF ~(encryptedData.intact /\ encryptedData.key = decryption.held
                  /\ encryptedData.iv = iv)
             THEN Ended(decryption, decryption.work, Thrown(GenericError))
             ELSE [decryption EXCEPT
                     !.pc = "checksum",
                     !.work = Append(@, "generateChecksum"),
                     !.held = TextDecode(encryptedData.plaintext)]
    /\ UNCHANGED <<exportText, exportPassword, randomDrawn, exported, mergeVars,
                   analyzerVars, storeVars,
                   parserVars, pageVars>>

\* await generateChecksum(plaintext) resolves: the comparison, then the
\* plaintext is returned or the integrity error thrown again by the catch.
DecryptChecked ==
    /\ decryption.pc = "checksum"
    /\ decryption' =
         IF generateChecksum(decryption.held) # decryption.encrypted.v.checksum.v
         THEN Ended(decryption, decryption.work, Thrown("Data integrity check failed"))
         ELSE Ended(decryption, decryption.work, Returned(decryption.held))
    /\ UNCHANGED <<exportText, exportPassword, randomDrawn, exported, mergeVars,
                   analyzerVars, storeVars,
                   parserVars, pageVars>>

CryptoNext ==
    \/ EncryptData
    \/ DecryptCalled
    \/ DecryptKeyDerived
    \/ DecryptDone
    \/ DecryptChecked

SpecCrypto == CryptoInit /\ [][CryptoNext]_vars

\* The steps of a decryptData call end as decryptData computes in one piece.
DecryptionAsDecryptData ==
    decryption.pc = "ended" =>
        decryption.result = decryptData(decryption.encrypted, decryption.password)

\* The call in flight decrypts, under the password it was written with, an
\* envelope exactly as encryptData returned it.
DecryptsOwnEnvelope ==
    /\ decryption.pc = "ended"
    /\ decryption.password = exportPassword
    /\ \E i \in 1..Len(exported) : decryption.encrypted = exported[i]

\* C16: for every plaintext p and password pw, decryptData(encryptData(p, pw),
\* pw) returns exactly p.
C16_RoundTrip ==
    DecryptsOwnEnvelope => decryption.result = Returned(exportText)

VersionOf(d) == d.encrypted.v.version

\* C17: a decryptData call that fails for another reason than the version or
\* the checksum (wrong password, corrupted ciphertext, tampered or malformed
\* salt or IV) throws 'Incorrect password or corrupted data'; one that fails
\* on the checksum comparison throws 'Data integrity check failed'.
C17_OtherFailuresAreGeneric ==
    (decryption.pc = "ended" /\ ~decryption.result.ok) =>
        \/ VersionOf(decryption) # Num(1)
        \/ /\ decryption.work[Len(decryption.work)] = "generateChecksum"
           /\ decryption.result.error = "Data integrity check failed"
        \/ /\ decryption.work[Len(decryption.work)] # "generateChecksum"
           /\ decryption.result.error = GenericError

\* C18: a decryptData call on an envelope whose version is not 1 throws
\* 'Unsupported backup version', whatever the other fields hold, and has
\* started no decoding, key derivation or decryption by then.
C18_VersionCheckedFirst ==
    (decryption.pc # "idle" /\ VersionOf(decryption) # Num(1)) =>
        /\ decryption.pc = "ended"
        /\ decryption.result = Thrown("Unsupported backup version")
        /\ decryption.work = <<>>

\* An envelope of version 2 whose salt is no base64 was turned down.
C18_Witness ==
    /\ decryption.pc = "ended"
    /\ VersionOf(decryption) = Num(2)
    /\ ~decryption.encrypted.v.salt.v.base64
    /\ decryption.result.error = "Unsupported backup version"

\* C20: every encryptData call draws a salt of 16 bytes and an IV of 12
\* bytes of its own: two calls with the same plaintext and password return
\* envelopes that differ in salt, iv and data.
C20_FreshSaltAndIv ==
    \A i \in 1..Len(exported) :
        /\ exported[i].v.salt.v.bytes.length = 16
        /\ exported[i].v.iv.v.bytes.length = 12
        /\ \A j \in 1..Len(exported) : i # j =>
              /\ exported[i].v.salt # exported[j].v.salt
              /\ exported[i].v.iv # exported[j].v.iv
              /\ exported[i].v.data # exported[j].v.data

\* encryptData has been called twice on the same plaintext and password.
C20_Witness ==
    /\ Len(exported) >= 2
    /\ exported[1].v.checksum = exported[2].v.checksum
    /\ exported[1].v.data.v.bytes.plaintext = exported[2].v.data.v.bytes.plaintext

----------------------------------------------------------------------------
(* lib/parser: parseCSV, from the rows of Papa.parse to the transactions *)

\* numStr.replace(/'/g, '')
RECURSIVE RemoveApostrophes(_)
RemoveApostrophes(s) ==
    IF Len(s) = 0 THEN ""
    ELSE IF CharAt(s, 1) = "'" THEN RemoveApostrophes(SubSeq(s, 2, Len(s)))
         ELSE CharAt(s, 1) \o RemoveApostrophes(SubSeq(s, 2, Len(s)))

\* s.replace(',', '.'): the first comma only.
RECURSIVE ReplaceFirstComma(_)
ReplaceFirstComma(s) ==
    IF Len(s) = 0 THEN ""
    ELSE IF CharAt(s, 1) = "," THEN "." \o SubSeq(s, 2, Len(s))
         ELSE CharAt(s, 1) \o ReplaceFirstComma(SubSeq(s, 2, Len(s)))

\* The longest prefix of s made of digits.
RECURSIVE LeadingDigits(_)
LeadingDigits(s) ==
    IF Len(s) > 0 /\ IsDigit(CharAt(s, 1))
    THEN CharAt(s, 1) \o LeadingDigits(SubSeq(s, 2, Len(s)))
    ELSE ""

RECURSIVE DigitsValue(_)
DigitsValue(s) ==
    IF Len(s) = 0 THEN 0
    ELSE 10 * DigitsValue(SubSeq(s, 1, Len(s) - 1)) + DigitVal(CharAt(s, Len(s)))

\* parseFloat: leading white space, a sign, digits, a point and digits; what
\* follows is ignored, no digit at all gives NaN. The number is kept in
\* thousandths (further decimals are cut off), as [nan, v].
parseFloat(s) ==
    LET t == trimStart(s)
        signed == Len(t) > 0 /\ CharAt(t, 1) \in {"-", "+"}
        sign == IF Len(t) > 0 /\ CharAt(t, 1) = "-" THEN -1 ELSE 1
        u == IF signed THEN SubSeq(t, 2, Len(t)) ELSE t
        whole == LeadingDigits(u)
        rest == SubSeq(u, Len(whole) + 1, Len(u))
        fraction == IF Len(rest) > 0 /\ CharAt(rest, 1) = "."
                    THEN LeadingDigits(SubSeq(rest, 2, Len(rest))) ELSE ""
        padded == SubSeq(fraction \o "000", 1, 3)
    IN  IF Len(whole) = 0 /\ Len(fraction) = 0 THEN [nan |-> TRUE, v |-> 0]
        ELSE [nan |-> FALSE, v |-> sign * (1000 * DigitsValue(whole) + DigitsValue(padded))]

parseNumber(numStr) ==
    IF numStr = "" \/ trim(numStr) = "" THEN Null
    ELSE LET parsed_ == parseFloat(ReplaceFirstComma(RemoveApostrophes(numStr)))
         IN  IF parsed_.nan THEN Null ELSE Num(parsed_.v)

\* s.split('.')
RECURSIVE SplitAtPoints(_)
SplitAtPoints(s) ==
    LET first == splitFirst(s, ".")
    IN  IF Len(first) = Len(s) THEN <<s>>
        ELSE <<first>> \o SplitAtPoints(SubSeq(s, Len(first) + 2, Len(s)))

\* parseInt(s, 10) of a text without sign: its leading digits, or NaN.
parseInt(s) ==
    IF Len(LeadingDigits(trimStart(s))) = 0 THEN NaN
    ELSE DigitsValue(LeadingDigits(trimStart(s)))

\* parseDate: dd.mm.yyyy as local midnight of that day, new Date() for
\* anything else. Days of June and July 2024.
parseDate(dateStr) ==
    IF dateStr = "" \/ trim(dateStr) = "" THEN DateOf(Now)
    ELSE LET parts == SplitAtPoints(trim(dateStr))
         IN  IF Len(parts) # 3 THEN DateOf(Now)
             ELSE LET day == parseInt(parts[1])
                      monthNumber == parseInt(parts[2])
                      year == parseInt(parts[3])
                  IN  IF day = NaN \/ monthNumber = NaN \/ year = NaN THEN DateOf(Now)
                      ELSE DateOf(MonthStarts[monthNumber - 5] + (day - 1) * 24)

\* Any of the words of a summary row in the lower-cased booking text or
\* account number.
RowIsSummaryAnyColumn(row) ==
    \E word \in {"total", "sum", "subtotal", "grand total"} :
        \/ includes(toLowerCase(row.bookingText), word)
        \/ includes(toLowerCase(row.accountNumber), word)

\* The total/summary test of the row filter.
RowIsSummary(row) ==
    \/ includes(toLowerCase(row.bookingText), "total")
    \/ includes(toLowerCase(row.bookingText), "sum")
    \/ includes(toLowerCase(row.bookingText), "subtotal")
    \/ includes(toLowerCase(row.bookingText), "grand total")
    \/ includes(toLowerCase(row.accountNumber), "total")

\* The callback of results.data.filter
RowKept(row) ==
    /\ ~(row.accountNumber = "" /\ row.purchaseDate = "" /\ row.bookingText = "")
    /\ ~RowIsSummary(row)
    /\ ~(row.purchaseDate = "" /\ row.bookingText = "" /\ row.amount = "")

\* The inflow words looked for in the booking text as it is written.
IsInflowAsWritten(bookingText) ==
    \E word \in {"TRANSFER FROM", "INCOMING", "DEPOSIT", "SALARY", "REFUND"} :
        includes(bookingText, word)

IsInflow(bookingText) ==
    \E word \in {"TRANSFER FROM", "INCOMING", "DEPOSIT", "SALARY", "REFUND"} :
        includes(toUpperCase(bookingText), word)

\* The callback of .map
RowToTransaction(row) ==
    LET parsedAmount == parseNumber(row.amount)
        amount == IF parsedAmount.t = "number" THEN parsedAmount.v ELSE 0
        debit == parseNumber(row.debit)
        credit == parseNumber(row.credit)
        infer == debit = Null /\ credit = Null /\ amount > 0
    IN  [accountNumber |-> row.accountNumber,
         purchaseDate |-> parseDate(row.purchaseDate),
         bookingText |-> row.bookingText,
         sector |-> IF row.sector = "" THEN "Other" ELSE row.sector,
         amount |-> amount,
         debit |-> IF infer /\ ~IsInflow(row.bookingText) THEN Num(amount) ELSE debit,
         credit |-> IF infer /\ IsInflow(row.bookingText) THEN Num(amount) ELSE credit]

\* results.data.filter(...).map(...)
RECURSIVE parseRows(_)
parseRows(rows) ==
    IF Len(rows) = 0 THEN <<>>
    ELSE IF RowKept(Head(rows))
         THEN <<RowToTransaction(Head(rows))>> \o parseRows(Tail(rows))
         ELSE parseRows(Tail(rows))

\* Data rows in a file.
MaxRows == 2

\* A row as Papa.parse gives it with header: true. A column the line does not
\* reach is undefined there; the code treats it as the empty text everywhere.
Row(accountNumber, purchaseDate, bookingText, sector, amount, debit, credit) ==
    [accountNumber |-> accountNumber, purchaseDate |-> purchaseDate,
     bookingText |-> bookingText, sector |-> sector, amount |-> amount,
     debit |-> debit, credit |-> credit]

RowUniverse ==
    { Row("0235-1", "15.06.2024", "Migros", "Grocery stores", "50.00", "50.00", ""),
      Row("0235-1", "14.06.2024", "Coop", "", "12.50", "", ""),
      Row("0235-1", "10.07.2024", "Salary June", "", "100.00", "", ""),
      Row("0235-1", "15.06.2024", "refund shoes", "", "1'234,50", "", ""),
      Row("0235-1", "15.06.2024", "Transfer from savings", "", "20.00", "", "20.00"),
      Row("0235-1", "15.06.2024", "Salary advance repaid", "", "30.00", "0", ""),
      Row("0235-1", "15.06.2024", "Kiosk", "", "-5.00", "", ""),
      Row("0235-1", "15.06.2024", "Kiosk", "", "abc", "", ""),
      Row("", "", "Total", "", "162.50", "", ""),
      Row("Total CHF", "", "", "", "162.50", "", ""),
      Row("SUM 01", "15.06.2024", "Migros", "", "5.00", "", ""),
      Row("0235-1", "15.06.2024", "Consumer goods", "", "5.00", "", ""),
      Row("0235-1", "", "", "", "", "", ""),
      Row("", "", "", "", "7.00", "", "") }

ParserInit ==
    /\ MergeIdle
    /\ AnalyzerIdle
    /\ StoreIdle
    /\ CryptoIdle
    /\ PageIdle
    /\ csvRows \in ListsUpTo(RowUniverse, MaxRows)
    /\ parsed = [done |-> FALSE]

\* The complete callback of Papa.parse resolves the promise of parseCSV.
ParseCSV ==
    /\ ~parsed.done
    /\ parsed' = [done |-> TRUE, transactions |-> parseRows(csvRows)]
    /\ UNCHANGED <<csvRows, mergeVars, analyzerVars, storeVars, cryptoVars, pageVars>>

ParserNext == ParseCSV

SpecParser == ParserInit /\ [][ParserNext]_vars

\* The rows the claim of C23 keeps, in file order.
RECURSIVE RowsKeptAsStated(_)
RowsKeptAsStated(rows) ==
    IF Len(rows) = 0 THEN <<>>
    ELSE LET row == Head(rows)
             dropped ==
                 \/ row.accountNumber = "" /\ row.purchaseDate = "" /\ row.bookingText = ""
                 \/ RowIsSummaryAnyColumn(row)
                 \/ row.purchaseDate = "" /\ row.bookingText = "" /\ row.amount = ""
         IN  IF dropped THEN RowsKeptAsStated(Tail(rows))
             ELSE <<row>> \o RowsKeptAsStated(Tail(rows))

\* C23: the row filter drops a row exactly when account number, purchase date
\* and booking text are all empty, or the lower-cased booking text or account
\* number contains 'total', 'sum', 'subtotal' or 'grand total', or purchase
\* date, booking text and amount are all empty; every other row yields one
\* transaction, in file order.
C23_RowFilter ==
    parsed.done =>
        LET kept == RowsKeptAsStated(csvRows)
        IN  /\ Len(parsed.transactions) = Len(kept)
            /\ \A i \in 1..Len(kept) :
                  parsed.transactions[i] = RowToTransaction(kept[i])

\* C24: a row whose Debit and Credit both parse to null and whose Amount is
\* positive gets exactly one of debit and credit, set to the amount: credit
\* when the booking text contains 'transfer from', 'incoming', 'deposit',
\* 'salary' or 'refund' in any letter case, debit otherwise; a row whose Debit
\* or Credit parsed to a value keeps both as parsed.
C24_DebitCreditInference ==
    parsed.done =>
        \A i \in 1..Len(csvRows) :
            RowKept(csvRows[i]) =>
                LET tx == parsed.transactions[Len(SelectSeq(SubSeq(csvRows, 1, i), RowKept))]
                    row == csvRows[i]
                    marked == \E word \in {"transfer from", "incoming", "deposit",
                                           "salary", "refund"} :
                                  includes(toLowerCase(row.bookingText), word)
                IN  IF parseNumber(row.debit) = Null /\ parseNumber(row.credit) = Null
                    THEN tx.amount > 0 =>
                             IF marked
                             THEN tx.credit = Num(tx.amount) /\ tx.debit = Null
                             ELSE tx.debit = Num(tx.amount) /\ tx.credit = Null
                    ELSE tx.debit = parseNumber(row.debit)
                         /\ tx.credit = parseNumber(row.credit)

\* A lower-case 'refund' row with an amount written 1'234,50 and no Debit or
\* Credit became a credit of 1234.50; a row with Debit 0 kept its columns.
C24_Witness ==
    /\ parsed.done
    /\ Len(parsed.transactions) = 2
    /\ csvRows[1].bookingText = "refund shoes"
    /\ parsed.transactions[1].credit = Num(1234500)
    /\ parsed.transactions[1].debit = Null
    /\ csvRows[2].debit = "0"
    /\ parsed.transactions[2].debit = Num(0)
    /\ parsed.transactions[2].credit = Null

----------------------------------------------------------------------------
(* lib/db: saveChartPreferences and getChartPreferences, called by the charts *)

\* The components that call saveChartPreferences from their handlers, none of
\* them awaiting an earlier call before the next is made.
Charts == {"MonthlyTrends", "CategoryBreakdown"}

MaxSaves == 3

\* Omit<ChartPreferences, 'id'>, the optional selections not set.
Preferences(granularity, showFilterPanel) ==
    [granularity |-> Str(granularity), excludedCategories |-> Arr(<<>>),
     showFilterPanel |-> Bool(showFilterPanel)]

PreferencesUniverse ==
    { Preferences("monthly", FALSE), Preferences("weekly", FALSE),
      Preferences("monthly", TRUE) }

\* Table.update(id, changes) with several changes: no row of that id, no change.
TableUpdateAll(table, id, changes) ==
    [table EXCEPT !.rows =
        { IF row.id = id
          THEN [k \in DOMAIN row \cup DOMAIN changes |->
                   IF k \in DOMAIN changes THEN changes[k] ELSE row[k]]
          ELSE row : row \in table.rows }]

\* Table.toArray(): the rows by ascending primary key; prefs[0] is FirstOf.
getChartPreferences(table) ==
    IF table.rows # {} THEN Obj(FirstOf(table.rows)) ELSE Undefined

\* saveChartPreferences after its toArray resolved: update existing[0], or add.
afterToArray(table, prefs) ==
    IF table.rows # {}
    THEN [pc |-> "update", prefs |-> prefs, id |-> FirstOf(table.rows).id]
    ELSE [pc |-> "add", prefs |-> prefs]

NoSavedPreferences == [t |-> "none"]

PreferencesInit ==
    /\ MergeIdle
    /\ AnalyzerIdle
    /\ StoreIdle
    /\ CryptoIdle
    /\ ParserIdle
    /\ home = [mounted |-> FALSE]
    /\ filterPanel = [mounted |-> FALSE]
    /\ tablePanel = [mounted |-> FALSE]
    /\ download = [made |-> FALSE]
    /\ chartPanels = [mounted |-> TRUE,
                      calls |-> [c \in Charts |-> NoCall],
                      savesLeft |-> MaxSaves,
                      lastCalled |-> NoSavedPreferences,
                      lastReturned |-> NoSavedPreferences]

PreferencesUnchanged ==
    UNCHANGED <<analyses, budgets, saveBudgetCall, restore, operationsLeft,
                home, filterPanel, tablePanel, download,
                mergeVars, analyzerVars, cryptoVars, parserVars>>

\* saveChartPreferences is called: it awaits db.chartPreferences.toArray()
SaveChartPreferencesCalled(c) ==
    /\ chartPanels.mounted
    /\ chartPanels.savesLeft > 0
    /\ chartPanels.calls[c].pc \in {"idle", "returned"}
    /\ \E prefs \in PreferencesUniverse :
           chartPanels' = [chartPanels EXCEPT
               !.calls[c] = [pc |-> "toArray", prefs |-> prefs],
               !.savesLeft = @ - 1,
               !.lastCalled = [t |-> "saved", prefs |-> prefs]]
    /\ UNCHANGED chartPreferences
    /\ PreferencesUnchanged

\* toArray resolves: an update or an add is issued
SaveChartPreferencesRead(c) ==
    /\ chartPanels.mounted
    /\ chartPanels.calls[c].pc = "toArray"
    /\ chartPanels' = [chartPanels EXCEPT
           !.calls[c] = afterToArray(chartPreferences, chartPanels.calls[c].prefs)]
    /\ UNCHANGED chartPreferences
    /\ PreferencesUnchanged

\* db.chartPreferences.update(existing[0].id!, prefs) resolves
SaveChartPreferencesUpdated(c) ==
    /\ chartPanels.mounted
    /\ chartPanels.calls[c].pc = "update"
    /\ chartPreferences' = TableUpdateAll(chartPreferences, chartPanels.calls[c].id,
                                          chartPanels.calls[c].prefs)
    /\ chartPanels' = [chartPanels EXCEPT
           !.calls[c] = [pc |-> "returned"],
           !.lastReturned = [t |-> "saved", prefs |-> chartPanels.calls[c].prefs]]
    /\ PreferencesUnchanged

\* db.chartPreferences.add(prefs) resolves
SaveChartPreferencesAdded(c) ==
    /\ chartPanels.mounted
    /\ chartPanels.calls[c].pc = "add"
    /\ chartPreferences' = TableAdd(chartPreferences, chartPanels.calls[c].prefs)
    /\ chartPanels' = [chartPanels EXCEPT
           !.calls[c] = [pc |-> "returned"],
           !.lastReturned = [t |-> "saved", prefs |-> chartPanels.calls[c].prefs]]
    /\ PreferencesUnchanged

PreferencesNext ==
    \E c \in Charts :
        \/ SaveChartPreferencesCalled(c)
        \/ SaveChartPreferencesRead(c)
        \/ SaveChartPreferencesUpdated(c)
        \/ SaveChartPreferencesAdded(c)

SpecPreferences == PreferencesInit /\ [][PreferencesNext]_vars

----------------------------------------------------------------------------
(* Properties of the chart preferences *)

AllSavesReturned ==
    /\ chartPanels.mounted
    /\ chartPanels.lastReturned.t = "saved"
    /\ \A c \in Charts : chartPanels.calls[c].pc \in {"idle", "returned"}

\* What getChartPreferences resolves with, its id aside.
StoredPreferences == Without(getChartPreferences(chartPreferences).v, "id")

\* C26: once every saveChartPreferences call has returned, however their
\* toArray, add and update steps interleaved, the table holds at most one
\* record and getChartPreferences returns the values saved most recently
\* (those of the last call made or of the last call to return).
C26_PreferencesSingleton ==
    AllSavesReturned =>
        /\ Cardinality(chartPreferences.rows) <= 1
        /\ StoredPreferences \in {chartPanels.lastCalled.prefs,
                                  chartPanels.lastReturned.prefs}

----------------------------------------------------------------------------
(* app/page, components/PeriodFilter, components/TransactionsTable *)

\* User events in a behaviour of the dashboard.
MaxEvents == 4

\* The presets modelled, of the ten PeriodFilter offers.
Presets == {"all", "thisMonth", "lastYear"}

\* The dateRange memo of PeriodFilter; 2023 ends 152 days before 2024-06-01.
PresetRange(preset) ==
    IF preset = "thisMonth"
    THEN [none |-> FALSE, start |-> startOfMonth(Now), end |-> endOfMonth(Now)]
    ELSE IF preset = "lastYear"
    THEN [none |-> FALSE, start |-> 0 - (152 + 365) * 24, end |-> 0 - 152 * 24 - 1]
    ELSE [none |-> TRUE]

\* The filteredTransactions memo of PeriodFilter.
RECURSIVE FilterByRange(_, _)
FilterByRange(list, range) ==
    IF Len(list) = 0 THEN <<>>
    ELSE LET t == Head(list)
             kept == /\ t.purchaseDate.t = "Date"
                     /\ t.purchaseDate.v # NaN
                     /\ isWithinInterval(t.purchaseDate.v, range.start, range.end)
         IN  (IF kept THEN <<t>> ELSE <<>>) \o FilterByRange(Tail(list), range)

PeriodFiltered(list, preset) ==
    IF PresetRange(preset).none THEN list ELSE FilterByRange(list, PresetRange(preset))

\* new Map()
EmptyMap == [given |-> TRUE, entries |-> <<>>]

\* Map.prototype.set and Map.prototype.delete on the entries of a Map.
MapSet(entries, key, value) ==
    [k \in DOMAIN entries \cup {key} |-> IF k = key THEN value ELSE entries[k]]

MapDelete(entries, key) == [k \in DOMAIN entries \ {key} |-> entries[k]]

\* No analyzeExpenses call made for a report.
NotComputed == [computed |-> FALSE]

\* History of an analyzeExpenses call: the list it was given, and for each
\* entry of the Map it was given the row the user had picked, whether that
\* row was of the set Home held then, and which set that was.
Computed(list, origins, generation) ==
    [computed |-> TRUE, list |-> list, origins |-> origins, generation |-> generation]

Unmounted == [mounted |-> FALSE]

\* Home as its useState calls initialise it.  generation counts the
\* replacements of the transaction set; origins, reportFrom and filteredFrom
\* are history.
HomeMounted ==
    [mounted |-> TRUE,
     transactions |-> <<>>,
     report |-> Null,
     categoryOverrides |-> EmptyMap,
     filteredTransactions |-> <<>>,
     filteredReport |-> Null,
     periodFilter |-> "all",
     eventsLeft |-> MaxEvents,
     generation |-> 0,
     origins |-> <<>>,
     reportFrom |-> NotComputed,
     filteredFrom |-> NotComputed]

\* periodFilter === 'all' ? transactions : filteredTransactions, which is
\* displayTransactions and the transactions prop of TransactionsTable.
displayTransactions(h) ==
    IF h.periodFilter = "all" THEN h.transactions ELSE h.filteredTransactions

\* periodFilter === 'all' ? report : (filteredReport ?? report)
displayReport(h) ==
    IF h.periodFilter = "all" THEN h.report
    ELSE IF h.filteredReport.t # "null" THEN h.filteredReport
    ELSE h.report

handlePeriodFilterChange(h, filtered, period) ==
    [h EXCEPT !.filteredTransactions = filtered,
              !.periodFilter = period,
              !.filteredReport =
                  IF Len(filtered) > 0
                  THEN Obj(analyzeExpenses(filtered, h.categoryOverrides))
                  ELSE Null,
              !.filteredFrom =
                  IF Len(filtered) > 0
                  THEN Computed(filtered, h.origins, h.generation)
                  ELSE NotComputed]

\* The effect of PeriodFilter: onFilteredTransactions(filteredTransactions,
\* selectedPreset, dateRange)
PeriodFilterEffect(h, preset) ==
    handlePeriodFilterChange(h, PeriodFiltered(h.transactions, preset), preset)

\* The transactionsWithCategories memo of TransactionsTable; the id of a row
\* is its position, counted from 0.
transactionsWithCategories(list) ==
    [i \in 1..Len(list) |->
        [transaction |-> list[i], category |-> categorizeTransaction(list[i])]]

\* The render that follows a handler, with the effects it schedules.  The
\* dashboard is there while report is not null; PeriodFilter and
\* TransactionsTable take their initial state when it appears, and the effect
\* of PeriodFilter runs on mount and whenever the transactions, the preset or
\* the callback (recreated with categoryOverrides) changed.
Rendered(h, f, t, changed) ==
    IF h.report.t = "null"
    THEN [home |-> h, filterPanel |-> Unmounted, tablePanel |-> Unmounted]
    ELSE IF ~f.mounted
    THEN [home |-> PeriodFilterEffect(h, "all"),
          filterPanel |-> [mounted |-> TRUE, selectedPreset |-> "all"],
          tablePanel |-> [mounted |-> TRUE,
                          localTransactions |->
                              transactionsWithCategories(displayTransactions(h)),
                          overrides |-> <<>>,
                          origins |-> <<>>]]
    ELSE [home |-> IF changed THEN PeriodFilterEffect(h, f.selectedPreset) ELSE h,
          filterPanel |-> f,
          tablePanel |-> t]

PageStep(h, f, t, changed) ==
    \E handled \in {h} :
    \E r \in {Rendered(handled, f, t, changed)} :
        /\ home' = [r.home EXCEPT !.eventsLeft = @ - 1]
        /\ filterPanel' = r.filterPanel
        /\ tablePanel' = r.tablePanel
        /\ UNCHANGED <<chartPanels, download, mergeVars, analyzerVars, storeVars,
                       cryptoVars, parserVars>>

\* handleFileUpload once parseCSV has resolved
handleFileUpload(h, parsedTransactions) ==
    [h EXCEPT !.transactions = parsedTransactions,
              !.categoryOverrides = EmptyMap,
              !.origins = <<>>,
              !.report = Obj(analyzeExpenses(parsedTransactions, NoOverrides)),
              !.generation = @ + 1,
              !.reportFrom = Computed(parsedTransactions, <<>>, h.generation + 1)]

handleUpdateCategories(h, overrides, origins) ==
    [h EXCEPT !.categoryOverrides = [given |-> TRUE, entries |-> overrides],
              !.origins = origins,
              !.report = Obj(analyzeExpenses(h.transactions,
                                             [given |-> TRUE, entries |-> overrides])),
              !.reportFrom = Computed(h.transactions, origins, h.generation)]

handleLoadSaved(h, analysis) ==
    [h EXCEPT !.transactions = analysis.transactions,
              !.report = analysis.report,
              !.generation = @ + 1,
              !.reportFrom = NotComputed]

handleRestoreComplete(h) ==
    [h EXCEPT !.transactions = <<>>,
              !.report = Null,
              !.generation = @ + 1,
              !.reportFrom = NotComputed]

handleHistoryBuilt(h, txns) ==
    [h EXCEPT !.transactions = txns,
              !.report = Obj(analyzeExpenses(txns, NoOverrides)),
              !.generation = @ + 1,
              !.reportFrom = Computed(txns, <<>>, h.generation + 1)]

\* Transaction sets: a statement of July and June, and one of June.
StatementOne ==
    <<Transaction(DateOf(JulyTenth), "Migros", "Grocery stores", Num(20000), Null),
      Transaction(DateOf(JuneFifteenth), "Test Restaurant", "Restaurants",
                  Num(10000), Null)>>

StatementTwo ==
    <<Transaction(DateOf(JuneFourteenth), "Shell", "Gas stations", Num(30000), Null)>>

Statements == {StatementOne, StatementTwo}

\* What getAllAnalyses offers to SavedAnalyses.
SavedAnalysesUniverse ==
    { [transactions |-> list, report |-> Obj(analyzeExpenses(list, NoOverrides))] :
        list \in Statements }

\* The categories picked in the table.
PickedCategories == {"Groceries", "Restaurants & Dining"}

PageInit ==
    /\ MergeIdle
    /\ AnalyzerIdle
    /\ StoreIdle
    /\ CryptoIdle
    /\ ParserIdle
    /\ chartPanels = [mounted |-> FALSE]
    /\ download = [made |-> FALSE]
    /\ home = HomeMounted
    /\ filterPanel = Unmounted
    /\ tablePanel = Unmounted

CanAct == home.mounted /\ home.eventsLeft > 0

HandleFileUpload ==
    /\ CanAct
    /\ \E list \in Statements \cup {<<>>} :
           PageStep(handleFileUpload(home, list), filterPanel, tablePanel, TRUE)

HandleLoadSaved ==
    /\ CanAct
    /\ \E analysis \in SavedAnalysesUniverse :
           PageStep(handleLoadSaved(home, analysis), filterPanel, tablePanel, TRUE)

HandleRestoreComplete ==
    /\ CanAct
    /\ PageStep(handleRestoreComplete(home), filterPanel, tablePanel, TRUE)

HandleHistoryBuilt ==
    /\ CanAct
    /\ filterPanel.mounted
    /\ \E txns \in Statements :
           PageStep(handleHistoryBuilt(home, txns), filterPanel, tablePanel, TRUE)

\* PeriodFilter: handlePresetSelect
HandlePresetSelect ==
    /\ CanAct
    /\ filterPanel.mounted
    /\ \E preset \in Presets \ {filterPanel.selectedPreset} :
           PageStep(home, [filterPanel EXCEPT !.selectedPreset = preset], tablePanel,
                    TRUE)

\* TransactionsTable: handleCategoryChange(id, newCategory) for a row shown.
\* categorizeTransaction(transactions[id]) reads the prop; past its end it
\* throws a TypeError, after setLocalTransactions.
HandleCategoryChange ==
    /\ CanAct
    /\ tablePanel.mounted
    /\ \E id \in 0..(Len(tablePanel.localTransactions) - 1),
          newCategory \in PickedCategories :
           LET prop == displayTransactions(home)
               updated == [tablePanel EXCEPT
                              !.localTransactions[id + 1].category = newCategory]
           IN  IF id >= Len(prop)
               THEN PageStep(home, filterPanel, updated, FALSE)
               ELSE LET originalCategory == categorizeTransaction(prop[id + 1])
                        row == tablePanel.localTransactions[id + 1].transaction
                        picked == [picked |-> row,
                                   ofSet |-> \E j \in 1..Len(home.transactions) :
                                                 home.transactions[j] = row,
                                   generation |-> home.generation]
                        newOverrides ==
                            IF newCategory # originalCategory
                            THEN MapSet(tablePanel.overrides, id, newCategory)
                            ELSE MapDelete(tablePanel.overrides, id)
                        newOrigins ==
                            IF newCategory # originalCategory
                            THEN MapSet(tablePanel.origins, id, picked)
                            ELSE MapDelete(tablePanel.origins, id)
                    IN  PageStep(handleUpdateCategories(home, newOverrides, newOrigins),
                                 filterPanel,
                                 [updated EXCEPT !.overrides = newOverrides,
                                                 !.origins = newOrigins],
                                 TRUE)

\* TransactionsTable: handleReset
HandleReset ==
    /\ CanAct
    /\ tablePanel.mounted
    /\ PageStep(handleUpdateCategories(home, <<>>, <<>>),
                filterPanel,
                [tablePanel EXCEPT
                    !.localTransactions =
                        transactionsWithCategories(displayTransactions(home)),
                    !.overrides = <<>>,
                    !.origins = <<>>],
                TRUE)

PageNext ==
    \/ HandleFileUpload
    \/ HandleLoadSaved
    \/ HandleRestoreComplete
    \/ HandleHistoryBuilt
    \/ HandlePresetSelect
    \/ HandleCategoryChange
    \/ HandleReset

SpecPage == PageInit /\ [][PageNext]_vars

----------------------------------------------------------------------------
(* Properties of the dashboard *)

DashboardShown == home.mounted /\ home.report.t # "null"

\* In an analyzeExpenses call, every override captured on a row of the set
\* analysed sits at the position of that row, and nowhere else.
AppliesToPicked(call) ==
    call.computed =>
        \A k \in DOMAIN call.origins :
            (call.origins[k].ofSet /\ call.origins[k].generation = call.generation) =>
                \A j \in 1..Len(call.list) :
                    (j = k + 1) <=> (call.list[j] = call.origins[k].picked)

\* C27: an override set in TransactionsTable applies to the transaction the
\* user picked whatever period filter is active: its index denotes that
\* transaction in the list handleUpdateCategories passes to analyzeExpenses
\* and in the list handlePeriodFilterChange passes to it.
C27_OverrideFollowsTransaction ==
    home.mounted =>
        /\ AppliesToPicked(home.reportFrom)
        /\ AppliesToPicked(home.filteredFrom)

\* In an analyzeExpenses call, every override was captured for the set analysed.
CapturedForSet(call) ==
    call.computed =>
        \A k \in DOMAIN call.origins : call.origins[k].generation = call.generation

\* C28: once handleFileUpload, handleLoadSaved, handleHistoryBuilt or
\* handleRestoreComplete has replaced the transaction set, no override
\* captured for an earlier set is applied in a report computation, that of
\* the filtered report included.
C28_NoStaleOverrides ==
    home.mounted =>
        /\ CapturedForSet(home.reportFrom)
        /\ CapturedForSet(home.filteredFrom)

\* C29: with a period filter other than 'all', the report displayed is the
\* report of the transactions displayed, also when the filter matches none.
C29_DisplayedReportOfDisplayedTransactions ==
    (DashboardShown /\ home.periodFilter # "all") =>
        displayReport(home) =
            Obj(analyzeExpenses(displayTransactions(home), home.categoryOverrides))

----------------------------------------------------------------------------
(* components/BackupRestore: handleExport, and the restore of its file *)

\* JSON.parse(JSON.stringify(x)): a Date is written by toJSON as its
\* toISOString, an Invalid Date as null; a property holding undefined is left
\* out, undefined in an array is written as null.
RECURSIVE ThroughJson(_)
ThroughJson(x) ==
    CASE x.t = "Date" -> IF x.v = NaN THEN Null ELSE Str(toISOString(x.v))
      [] x.t = "array" ->
             Arr([i \in 1..Len(x.v) |->
                     IF x.v[i].t = "undefined" THEN Null ELSE ThroughJson(x.v[i])])
      [] x.t = "object" ->
             Obj([k \in { key \in DOMAIN x.v : x.v[key].t # "undefined" } |->
                     ThroughJson(x.v[k])])
      [] OTHER -> x

\* JSON.stringify(x), as the text JSON.parse reads back.
JSONstringify(x) == JsonText(ThroughJson(x))

\* Table.toArray(): the rows by ascending primary key.
RECURSIVE toArray(_)
toArray(rows) ==
    IF rows = {} THEN <<>>
    ELSE <<Obj(FirstOf(rows))>> \o toArray(rows \ {FirstOf(rows)})

exportAllData ==
    Obj([version |-> Num(1),
         exportDate |-> Str(toISOString(Now)),
         analyses |-> Arr(toArray(analyses.rows)),
         budgets |-> Arr(toArray(budgets.rows)),
         chartPreferences |-> IF chartPreferences.rows # {}
                              THEN toArray(chartPreferences.rows)[1]
                              ELSE Null])

\* handleExport from exportAllData to the text of the file: JSON.stringify of
\* the data, encryptData with a fresh salt and iv, JSON.stringify of the
\* envelope.
exportFile(password, n) ==
    JsonText(encryptData(JSONstringify(exportAllData), password,
                         generateSalt(n + 1), generateIV(n + 2)))

\* An analysis of a statement whose booking text is a timestamp.
TimestampText == "2024-06-15T10:00:00.000Z"

AnalysisOfTimestamps ==
    [name |-> Str("log.csv - 6/15/2024"), fileName |-> Str("log.csv"),
     uploadDate |-> DateOf(Now),
     transactions |->
         Arr(<<Obj([purchaseDate |-> DateOf(JuneFourteenth),
                    bookingText |-> Str(TimestampText),
                    sector |-> Str("Other"), debit |-> Num(12000), credit |-> Null])>>),
     report |-> Obj([totalSpent |-> Num(12000), transactionCount |-> Num(1)])]

SavedBudget ==
    [category |-> Str("Groceries"), amount |-> Num(300000), createdDate |-> DateOf(Now)]

SavedPreferences ==
    [granularity |-> Str("weekly"), excludedCategories |-> Arr(<<Str("Income")>>),
     showFilterPanel |-> Bool(TRUE)]

\* Stores that saveAnalysis, saveBudget and saveChartPreferences leave.
StoredAnalyses ==
    { EmptyTable, TableAdd(EmptyTable, AnalysisToSave),
      TableAdd(EmptyTable, AnalysisOfTimestamps),
      TableAdd(TableAdd(EmptyTable, AnalysisToSave), AnalysisOfTimestamps) }

StoredBudgets == { EmptyTable, TableAdd(EmptyTable, SavedBudget) }

StoredChartPreferences == { EmptyTable, TableAdd(EmptyTable, SavedPreferences) }

BackupInit ==
    /\ MergeIdle
    /\ AnalyzerIdle
    /\ CryptoIdle
    /\ ParserIdle
    /\ home = [mounted |-> FALSE]
    /\ filterPanel = [mounted |-> FALSE]
    /\ tablePanel = [mounted |-> FALSE]
    /\ chartPanels = [mounted |-> FALSE]
    /\ download = [made |-> FALSE]
    /\ analyses \in StoredAnalyses
    /\ budgets \in StoredBudgets
    /\ chartPreferences \in StoredChartPreferences
    /\ saveBudgetCall = [c \in Callers |-> NoCall]
    /\ restore = RestoreClosed
    /\ operationsLeft = MaxOperations

\* handleExport with a password that passes validatePassword, typed twice;
\* contents is history: what the store held.
HandleExport ==
    /\ DialogAtRest
    /\ NoSaveInFlight
    /\ operationsLeft > 0
    /\ download' = [made |-> TRUE,
                    file |-> exportFile(BackupPassword, randomDrawn),
                    password |-> BackupPassword,
                    contents |-> ContentsOf(Snapshot)]
    /\ randomDrawn' = randomDrawn + 2
    /\ operationsLeft' = operationsLeft - 1
    /\ UNCHANGED <<tables, saveBudgetCall, restore, exportText, exportPassword,
                   exported, decryption, home, filterPanel, tablePanel, chartPanels,
                   mergeVars, analyzerVars, parserVars>>

\* handleImport with the file handleExport wrote
HandleImportOfExport ==
    /\ DialogAtRest
    /\ NoSaveInFlight
    /\ operationsLeft > 0
    /\ download.made
    /\ \E password \in {download.password, "Other1Pass"} :
           restore' =
               [pc |-> "text", error |-> "",
                file |-> download.file, password |-> password, backup |-> NoBackup,
                imported |-> FALSE, before |-> Snapshot]
    /\ operationsLeft' = operationsLeft - 1
    /\ UNCHANGED <<tables, saveBudgetCall, mergeVars, analyzerVars, cryptoVars,
                   parserVars, pageVars>>

BackupNext ==
    \/ HandleExport
    \/ HandleImportOfExport
    \/ DeleteBudget
    \/ SaveAnalysis
    \/ ImportFileRead
    \/ ImportDecrypted
    \/ ImportClearedAnalyses
    \/ ImportClearedBudgets
    \/ ImportClearedChartPreferences
    \/ ImportAddedAnalyses
    \/ ImportAddedBudgets
    \/ ImportAddedChartPreferences
    \/ CloseBackupRestore

SpecBackup == BackupInit /\ [][BackupNext]_vars

----------------------------------------------------------------------------
(* Properties of the backup round trip *)

RestoredOwnExport ==
    /\ download.made
    /\ restore.pc = "done"
    /\ restore.imported
    /\ restore.file = download.file
    /\ restore.password = download.password

\* C30: a backup made by handleExport and restored with the same password
\* leaves the store with the analyses, budgets and chart preferences that
\* were exported, ids aside: every Date the same Date, every other field with
\* its value and type.
C30_BackupRoundTrip ==
    RestoredOwnExport => ContentsOf(Snapshot) = download.contents

====
